---- MODULE Spec2Model ----
(***************************************************************************)
(* bg-tm: the process lifecycle controller (src/src/process-manager.js)    *)
(* over the flat-file store (src/src/storage.js).                          *)
(*                                                                         *)
(* One controller instance runs one caller operation at a time (the caller *)
(* awaits each call).  Every await on file I/O is a point where the exit   *)
(* listeners of the children spawned by this instance run, so a storage    *)
(* read-modify-write is two steps: the read of the document and the write  *)
(* of the content computed from that read.  The instance's process may end *)
(* between operations (one command line invocation each), and its          *)
(* listeners with it.  The OS (children dying, spawns and unlinks failing) *)
(* is the environment.                                                     *)
(***************************************************************************)
EXTENDS Integers, Sequences, FiniteSets, TLC

VARIABLES
  doc,       \* processes.json: the persisted sequence of records
  logFiles,  \* the log files <dataDir>/logs/<id>.log that exist
  children,  \* one entry per spawn call of this instance, in spawn order
  nextId,    \* number of ids handed out by uuidv4 so far
  callsLeft, \* number of operations the caller may still invoke
  ctl,       \* the caller's operation in flight: position, locals, result
  file,      \* processes.json on disk: "ok" (parsable), "absent", "corrupt"
  backupFile, \* the backup file: what it holds and the document it was made of
  platform,  \* os.platform() of the run: "posix" or "win32"
  peer,      \* a startProcess of another invocation on the same document
  logText,   \* what the children write to their log files, as characters
  ctorInit   \* the init() the Storage constructor started and nobody awaits

vars == <<doc, logFiles, children, nextId, callsLeft, ctl, file, backupFile,
          platform, peer, logText, ctorInit>>

\* what an operation of the controller leaves alone
outside == <<backupFile, platform, peer, logText, ctorInit>>

\* ------------------------------------------------------------------ bounds
\* startProcess calls of the caller
MaxStarts == 2
\* spawn calls of the instance, those of restartProcess included
MaxSpawns == 3
\* operations the caller invokes, in the two specifications
MaxCalls == 2
MaxCallsDeep == 4
MaxCallsStore == 3
\* the largest tail option of getLogs, and the length of a log file
MaxTail == 2
MaxLen == 4

\* ------------------------------------------------------------------ values
None == "none"          \* undefined: the field is absent
Null == "null"          \* JavaScript null
Now  == "now"           \* new Date().toISOString(): the clock is abstracted

\* a uuidv4 that gives the same id again
IdsRepeating == <<"id1", "id1", "id1", "id1", "id1">>
\* uuidv4() of the n-th startProcess of the instance
Ids == <<"id1", "id2", "id3", "id4", "id5">>
Pids == <<"pid1", "pid2", "pid3", "pid4", "pid5">>
Cwd == "/cwd"
EmptyEnv == "{}"

\* An environment is a map from variable names to values. The records and
\* the options name theirs by its text; EnvMap gives the map a text stands
\* for.
NoEnv == [k \in {} |-> ""]
EnvMap(text) ==
  IF text = "{K:v,N:w}" THEN [k \in {"K", "N"} |-> IF k = "K" THEN "v" ELSE "w"]
  ELSE NoEnv

\* process.env of the instance
BaseEnv == [k \in {"K", "HOME"} |-> IF k = "K" THEN "base" ELSE "/home"]

\* a spread in which the base environment wins on a key both have
SpawnEnvironmentBaseWins(base, given) ==
  LET overlay == IF given = None THEN NoEnv ELSE EnvMap(given)
  IN [k \in DOMAIN base \cup DOMAIN overlay |->
        IF k \in DOMAIN base THEN base[k] ELSE overlay[k]]

\* { ...process.env, ...options.environment }: the keys of both, the value
\* of options.environment where it has the key; spreading undefined adds
\* nothing
SpawnEnvironment(base, given) ==
  LET overlay == IF given = None THEN NoEnv ELSE EnvMap(given)
  IN [k \in DOMAIN base \cup DOMAIN overlay |->
        IF k \in DOMAIN overlay THEN overlay[k] ELSE base[k]]

\* what the 'exit' event reports: (code, signal), here a child that exited
\* with code 0
Exits == { [code |-> "0", signal |-> Null] }
SpawnErrorMessage == "spawn ENOENT"

\* The options callers pass to startProcess: one with every option given,
\* one with none.
FullOptions ==
  [name |-> "web", workingDirectory |-> "/srv", environment |-> "{K:v,N:w}",
   autostart |-> TRUE]
NoOptions ==
  [name |-> None, workingDirectory |-> None, environment |-> None,
   autostart |-> FALSE]
StartInputs ==
  { [command |-> "serve", options |-> FullOptions],
    [command |-> "echo hi", options |-> NoOptions] }

\* nameOrId values callers look records up by
LookupKeys == {"web", "id2"}

Fields ==
  {"id", "name", "command", "pid", "status", "startTime", "workingDirectory",
   "environment", "logFile", "autostart", "lastUpdated", "exitCode", "signal",
   "error", "stoppedBy", "stoppedAt"}

NoRec == [f \in Fields |-> IF f = "autostart" THEN FALSE ELSE None]

\* path.join(logDir, `${processId}.log`) for the n-th id
LogFileNames ==
  <<"logs/id1.log", "logs/id2.log", "logs/id3.log", "logs/id4.log",
    "logs/id5.log">>

\* `process-${Date.now()}` for the n-th start (the clock moves between starts)
DefaultNames ==
  <<"process-1", "process-2", "process-3", "process-4", "process-5">>

\* ----------------------------------------------------------------- storage
\* processes.findIndex(p => p.id === id); 0 when there is none
IndexOfId(d, id) ==
  IF \E i \in 1..Len(d) : d[i].id = id
  THEN CHOOSE i \in 1..Len(d) : d[i].id = id /\ \A j \in 1..(i-1) : d[j].id # id
  ELSE 0

\* a find that takes the last record that matches
FindIndexLast(d, key) ==
  IF \E i \in 1..Len(d) : d[i].id = key \/ d[i].name = key
  THEN CHOOSE i \in 1..Len(d) :
         /\ (d[i].id = key \/ d[i].name = key)
         /\ \A j \in (i+1)..Len(d) : ~(d[j].id = key \/ d[j].name = key)
  ELSE 0

\* processes.find(p => p.id === nameOrId || p.name === nameOrId)
FindIndex(d, key) ==
  IF \E i \in 1..Len(d) : d[i].id = key \/ d[i].name = key
  THEN CHOOSE i \in 1..Len(d) :
         /\ (d[i].id = key \/ d[i].name = key)
         /\ \A j \in 1..(i-1) : ~(d[j].id = key \/ d[j].name = key)
  ELSE 0

\* { ...processes[i], ...updates }
Merge(rec, updates) ==
  [f \in Fields |-> IF f \in DOMAIN updates THEN updates[f] ELSE rec[f]]

\* Storage.saveProcess: the document to write, from the document read
SaveProcessDoc(d, pd) ==
  IF IndexOfId(d, pd.id) > 0
  THEN [d EXCEPT ![IndexOfId(d, pd.id)] = pd]
  ELSE Append(d, pd)

\* Storage.updateProcess: the document to write, from the document read
UpdateProcessDoc(d, id, updates) ==
  [d EXCEPT ![IndexOfId(d, id)] = Merge(d[IndexOfId(d, id)], updates)]

\* Storage.deleteProcess: processes.filter(p => p.id !== processId)
DeleteProcessDoc(d, id) == SelectSeq(d, LAMBDA p : p.id # id)

\* a loadProcesses that answers an unparsable document with the empty list
LoadProcessesLenient(f, d) ==
  IF f = "ok" THEN [ok |-> TRUE, processes |-> d]
  ELSE [ok |-> TRUE, processes |-> <<>>]

\* Storage.loadProcesses on a file in state f holding the records d: the
\* records; [] when readFile fails with ENOENT; a rejection ("Failed to load
\* processes") when the content does not parse
LoadProcesses(f, d) ==
  CASE f = "ok" -> [ok |-> TRUE, processes |-> d]
    [] f = "absent" -> [ok |-> TRUE, processes |-> <<>>]
    [] OTHER -> [ok |-> FALSE, processes |-> <<>>]

\* an updateProcessStatus whose updates also drop the pid
StatusUpdatesDroppingPid(status, metadata) ==
  [f \in {"status", "lastUpdated", "pid"} \cup DOMAIN metadata |->
     IF f \in DOMAIN metadata THEN metadata[f]
     ELSE IF f = "status" THEN status
     ELSE IF f = "pid" THEN None
     ELSE Now]

\* ProcessManager.updateProcessStatus: the updates object it builds
StatusUpdates(status, metadata) ==
  [f \in {"status", "lastUpdated"} \cup DOMAIN metadata |->
     IF f \in DOMAIN metadata THEN metadata[f]
     ELSE IF f = "status" THEN status
     ELSE Now]

StoppedBy(who) == [stoppedBy |-> who, stoppedAt |-> Now]

\* ------------------------------------------------------------- OS children
\* A spawned child: what the OS knows (pid, alive, and env: the environment
\* spawn was given for it), the event the instance
\* emitted for it (note), whether startProcess has attached the listeners
\* (listening), and the listener's run: h is "idle" before the event, "lost"
\* when nobody heard it, then "heard", "write", "done" or "rejected"; hbuf is
\* the document it is about to write.
NoNote == [kind |-> None, code |-> None, signal |-> None, message |-> None]

Child(id, pid, alive, note, env) ==
  [id |-> id, pid |-> pid, alive |-> alive, note |-> note, env |-> env,
   listening |-> FALSE, h |-> "idle", hbuf |-> <<>>]

\* process.kill(pid, 0) in isProcessRunning: true iff the OS has the pid
PidAlive(pid) ==
  \E n \in 1..Len(children) : children[n].pid = pid /\ children[n].alive

\* The child ends, of itself or of a signal (sent by stopProcess or by
\* anyone else), and the instance emits its 'exit' event: the listener runs
\* when startProcess has attached it (after saveProcess), nobody hears the
\* event otherwise.
ChildExits(n, e) ==
  /\ n \in 1..Len(children)
  /\ children[n].alive
  /\ children' = [children EXCEPT ![n].alive = FALSE,
       ![n].note = [kind |-> "exit", code |-> e.code, signal |-> e.signal,
                    message |-> None],
       ![n].h = IF children[n].listening THEN "heard" ELSE "lost"]
  /\ UNCHANGED <<doc, logFiles, nextId, callsLeft, ctl, file>>
  /\ UNCHANGED outside

\* listeners whose updates also clear the log file
NoteUpdatesClearingLog(note) ==
  IF note.kind = "error"
  THEN StatusUpdates("error", [error |-> note.message, logFile |-> None])
  ELSE StatusUpdates("stopped", [exitCode |-> note.code,
                                 signal |-> note.signal, logFile |-> None])

\* the updates the listener of the notification passes to updateProcessStatus
NoteUpdates(note) ==
  IF note.kind = "error"
  THEN StatusUpdates("error", [error |-> note.message])
  ELSE StatusUpdates("stopped", [exitCode |-> note.code, signal |-> note.signal])

\* The listener called updateProcessStatus: its updateProcess reads the
\* document (and rejects when it cannot be loaded or the id is gone).
ListenerLoad(n) ==
  /\ n \in 1..Len(children)
  /\ children[n].h = "heard"
  /\ LET read == LoadProcesses(file, doc)
     IN IF ~read.ok \/ IndexOfId(read.processes, children[n].id) = 0
        THEN children' = [children EXCEPT ![n].h = "rejected"]
        ELSE children' = [children EXCEPT ![n].h = "write",
               ![n].hbuf = UpdateProcessDoc(read.processes, children[n].id,
                                            NoteUpdates(children[n].note))]
  /\ UNCHANGED <<doc, logFiles, nextId, ctl, callsLeft, file>>
  /\ UNCHANGED outside

\* updateProcess of the listener writes the document it computed
ListenerWrite(n) ==
  /\ n \in 1..Len(children)
  /\ children[n].h = "write"
  /\ doc' = children[n].hbuf
  /\ children' = [children EXCEPT ![n].h = "done", ![n].hbuf = <<>>]
  /\ file' = "ok"
  /\ UNCHANGED <<logFiles, nextId, ctl, callsLeft>>
  /\ UNCHANGED outside

\* The instance's process is gone: its listeners with it, and whatever they
\* were in the middle of.
Abandoned(ch) ==
  [n \in 1..Len(ch) |->
     [ch[n] EXCEPT !.listening = FALSE, !.hbuf = <<>>,
                   !.h = IF @ \in {"heard", "write"} THEN "lost" ELSE @]]

\* ------------------------------------------------------------- controller
\* The caller's operation: kind and arguments, the position pc, the pending
\* returns of the calls it is inside (stack), its locals, and what it did
\* (osLog: the OS calls it made; writes: the document writes it made;
\* killOutcome: what its last step, a terminate call, came to). The stop
\* command of the command line carries the names it was given, the position
\* of the one it is at, and what it printed for each (reports).
\* A finished operation keeps its arguments, what it did and its result.
IdleCtl ==
  [kind |-> "none", pc |-> "done", stack |-> <<>>, arg |-> None,
   force |-> FALSE, pd |-> NoRec, old |-> NoRec, new |-> NoRec, child |-> 0,
   buf |-> <<>>, updId |-> None, updates |-> [status |-> None],
   delId |-> None, snapshot |-> <<>>, queue |-> <<>>,
   cleanedProcesses |-> 0, cleanedLogFiles |-> 0,
   osLog |-> <<>>, writes |-> 0, unlinks |-> <<>>, deleted |-> <<>>,
   killOutcome |-> None, includeAll |-> FALSE, list |-> <<>>, count |-> 0,
   tail |-> 0, out |-> <<>>, probe |-> None, options |-> NoOptions,
   names |-> <<>>, at |-> 0, reports |-> <<>>,
   ok |-> TRUE, error |-> None, value |-> NoRec]

Call(kind, arg, force, pc, stack) ==
  [IdleCtl EXCEPT !.kind = kind, !.arg = arg, !.force = force, !.pc = pc,
                  !.stack = stack]

\* the operation resolves with value
Finish(c, value) ==
  [IdleCtl EXCEPT !.kind = c.kind, !.arg = c.arg, !.force = c.force,
     !.osLog = c.osLog, !.writes = c.writes,
     !.cleanedProcesses = c.cleanedProcesses,
     !.cleanedLogFiles = c.cleanedLogFiles, !.value = value]

\* the operation rejects and nothing catches
ThrowToCaller(c, err) ==
  [IdleCtl EXCEPT !.kind = c.kind, !.arg = c.arg, !.force = c.force,
     !.osLog = c.osLog, !.writes = c.writes, !.ok = FALSE, !.error = err]

\* a restartProcess that catches the failure of its stopProcess and goes on
\* to start the replacement
ThrowCaughtByRestart(c, err) ==
  IF c.kind = "restart" /\ c.stack # <<>> /\ c.stack[Len(c.stack)] = "rs_start"
  THEN [c EXCEPT !.pc = "rs_start", !.stack = <<>>]
  ELSE ThrowToCaller(c, err)

\* CLI.stopProcesses calls stopProcess(name, options.force) for the i-th name
StopsAttempt(c, i) ==
  [Call("stops", c.names[i], c.force, "gp_load", <<"stop_check", "cli_stopped">>)
     EXCEPT !.names = c.names, !.at = i, !.reports = c.reports,
            !.osLog = c.osLog, !.writes = c.writes]

\* CLI.stopProcesses after the try/catch of one name: the next name of the
\* for loop, or the end of the command
StopsNext(c) ==
  IF c.at = Len(c.names)
  THEN [Finish(c, NoRec) EXCEPT !.names = c.names, !.at = c.at,
                                !.reports = c.reports]
  ELSE StopsAttempt(c, c.at + 1)

\* The operation rejects. Inside the stop command the catch of
\* CLI.stopProcesses prints the failure and the loop goes on; anywhere else
\* no caller on the stack catches.
Throw(c, err) ==
  IF c.kind = "stops"
  THEN StopsNext([c EXCEPT !.reports =
                    Append(@, [name |-> c.arg, error |-> err])])
  ELSE [IdleCtl EXCEPT !.kind = c.kind, !.arg = c.arg, !.force = c.force,
          !.osLog = c.osLog, !.writes = c.writes, !.ok = FALSE, !.error = err]

\* cleanup's loop body for the head of the queue: unlink when the record
\* names a log file, then deleteProcess
CleanupItem(c) ==
  IF Head(c.queue).logFile # None
  THEN [c EXCEPT !.pc = "cl_unlink"]
  ELSE [c EXCEPT !.pc = "del_load", !.delId = Head(c.queue).id,
                 !.stack = <<"cl_next">> \o c.stack]

\* a stopProcess that goes on to the kill whatever the status
StopAfterGetUnchecked(c) == [c EXCEPT !.pc = "stop_kill"]

\* stopProcess after its getProcess: throw unless the record says running
StopAfterGet(c) ==
  IF c.pd.status # "running"
  THEN Throw(c, "NotRunning")
  ELSE [c EXCEPT !.pc = "stop_kill"]

\* restartProcess after its getProcess: stopProcess(nameOrId) when the
\* record says running, else straight to startProcess
RestartAfterGet(c) ==
  IF c.pd.status = "running"
  THEN [c EXCEPT !.old = c.pd, !.pc = "gp_load",
                 !.stack = <<"stop_check", "rs_start">> \o c.stack]
  ELSE [c EXCEPT !.old = c.pd, !.pc = "rs_start"]

\* restartProcess after its startProcess: storage.deleteProcess(oldProcess.id)
RestartAfterStart(c) ==
  [c EXCEPT !.pc = "del_load", !.delId = c.old.id,
            !.stack = <<"restart">> \o c.stack]

\* getLogs after its getProcess: throw when the record names no log file,
\* else read it
LogsAfterGet(c) ==
  IF c.pd.logFile = None
  THEN Throw(c, "NoLogFile")
  ELSE [c EXCEPT !.pc = "lg_read"]

\* cleanup after deleteProcess: cleanedProcesses++, then the next record
CleanupAfterDelete(c) ==
  LET c1 == [c EXCEPT !.cleanedProcesses = @ + 1, !.queue = Tail(c.queue)]
  IN IF c1.queue = <<>> THEN Finish(c1, NoRec) ELSE CleanupItem(c1)

\* The call on top of the stack returns: the code that runs in the caller
\* up to its next await on the file system or the OS.
RECURSIVE Return(_)
Return(c) ==
  LET lab == Head(c.stack)
      c1 == [c EXCEPT !.stack = Tail(c.stack)]
  IN CASE lab \in {"get", "stop"} -> Finish(c1, c1.pd)
       [] lab \in {"start", "restart"} -> Finish(c1, c1.new)
       \* getProcess after its updateProcessStatus: processData.status = 'stopped'
       [] lab = "gp_reconciled" -> Return([c1 EXCEPT !.pd.status = "stopped"])
       [] lab = "stop_check" -> StopAfterGet(c1)
       \* stopProcess after its updateProcessStatus: return processData
       [] lab = "stop_updated" -> Return(c1)
       [] lab = "logs" -> LogsAfterGet(c1)
       [] lab = "rs_check" -> RestartAfterGet(c1)
       [] lab = "rs_delete" -> RestartAfterStart(c1)
       [] lab = "cl_next" -> CleanupAfterDelete(c1)
       \* CLI.stopProcesses after its stopProcess resolved: the success line
       [] lab = "cli_stopped" ->
            StopsNext([c1 EXCEPT !.reports =
                         Append(@, [name |-> c1.arg, error |-> None])])
       \* updateProcess / deleteProcess called on the store itself: it resolves
       [] lab = "storage" -> Finish(c1, NoRec)
       [] OTHER -> [c1 EXCEPT !.pc = lab]

\* --- getProcess ----------------------------------------------------------
CallGet(key) ==
  /\ ctl.pc = "done"
  /\ callsLeft > 0
  /\ callsLeft' = callsLeft - 1
  /\ ctl' = Call("get", key, FALSE, "gp_load", <<"get">>)
  /\ UNCHANGED <<doc, logFiles, children, nextId, file>>
  /\ UNCHANGED outside

\* a getProcess that returns the record as stored, without the probe
GetProcessStepUnprobed(c, d) ==
  IF FindIndex(d, c.arg) = 0 THEN Throw(c, "NotFound")
  ELSE Return([c EXCEPT !.pd = d[FindIndex(d, c.arg)]])

\* a getProcess that probes every record marked running, pid or not
GetProcessStepProbingAll(c, d) ==
  LET i == FindIndex(d, c.arg)
      pd == d[i]
      probed == [c EXCEPT !.pd = pd,
                   !.osLog = Append(@, [call |-> "probe", pid |-> pd.pid,
                                        sig |-> None])]
  IN IF i = 0 THEN Throw(c, "NotFound")
     ELSE IF pd.status = "running"
     THEN IF PidAlive(pd.pid)
          THEN Return(probed)
          ELSE [probed EXCEPT !.pc = "upd_load", !.updId = pd.id,
                  !.updates = StatusUpdates("stopped", StoppedBy("system")),
                  !.stack = <<"gp_reconciled">> \o c.stack]
     ELSE Return([c EXCEPT !.pd = pd])

\* storage.getProcess reads the document; a record marked running with a pid
\* is probed, and a dead one goes to updateProcessStatus
GetProcessStep(c, d) ==
  LET i == FindIndex(d, c.arg)
      pd == d[i]
      probed == [c EXCEPT !.pd = pd,
                   !.osLog = Append(@, [call |-> "probe", pid |-> pd.pid,
                                        sig |-> None])]
  IN IF i = 0 THEN Throw(c, "NotFound")
     ELSE IF pd.status = "running" /\ pd.pid # None
     THEN IF PidAlive(pd.pid)
          THEN Return(probed)
          ELSE [probed EXCEPT !.pc = "upd_load", !.updId = pd.id,
                  !.updates = StatusUpdates("stopped", StoppedBy("system")),
                  !.stack = <<"gp_reconciled">> \o c.stack]
     ELSE Return([c EXCEPT !.pd = pd])

GpLoad ==
  /\ ctl.pc = "gp_load"
  /\ ctl' = IF LoadProcesses(file, doc).ok
            THEN GetProcessStep(ctl, LoadProcesses(file, doc).processes)
            ELSE Throw(ctl, "LoadFailed")
  /\ UNCHANGED <<doc, logFiles, children, nextId, callsLeft, file>>
  /\ UNCHANGED outside

\* --- isProcessRunning, with the queries that fail ------------------------
\* What the query underneath did. POSIX, process.kill(pid, 0): it returns
\* ("ok") or throws ESRCH (no such process) or EPERM (a process of another
\* user). win32, spawn('tasklist'): the spawn throws ("throws"), or emits
\* 'error' ("launchError"), or tasklist exits with the pid in the output
\* collected so far ("listed") or without it: the process is not there
\* ("notListed") or 'exit' came before the output ("noOutput").
ProbeOutcomes(pf, pid) ==
  IF pf = "win32"
  THEN IF PidAlive(pid) THEN {"listed", "noOutput", "launchError", "throws"}
       ELSE {"notListed", "launchError", "throws"}
  ELSE IF PidAlive(pid) THEN {"ok", "EPERM"}
       ELSE {"ESRCH"}

AllProbeOutcomes ==
  {"ok", "ESRCH", "EPERM", "listed", "notListed", "noOutput", "launchError",
   "throws"}

\* the outcomes in which the query itself failed
ProbeFailures == {"EPERM", "noOutput", "launchError", "throws"}

\* an isProcessRunning that takes a failed query for a live process
IsProcessRunningFailOpen(pf, outcome) ==
  outcome \in {"ok", "listed"} \cup ProbeFailures

\* isProcessRunning: true when kill(pid, 0) returned, or when tasklist's
\* output includes the pid; false from every catch and from 'error'
IsProcessRunning(pf, outcome) ==
  IF pf = "win32" THEN outcome = "listed" ELSE outcome = "ok"

\* getProcess after storage.getProcess, for the outcome of the query
GetProcessStepProbe(c, d, outcome) ==
  LET i == FindIndex(d, c.arg)
      pd == d[i]
      probed == [c EXCEPT !.pd = pd,
                   !.osLog = Append(@, [call |-> "probe", pid |-> pd.pid,
                                        sig |-> None])]
  IN IF i = 0 THEN Throw(c, "NotFound")
     ELSE IF pd.status = "running" /\ pd.pid # None
     THEN IF IsProcessRunning(platform, outcome)
          THEN Return(probed)
          ELSE [probed EXCEPT !.pc = "upd_load", !.updId = pd.id,
                  !.updates = StatusUpdates("stopped", StoppedBy("system")),
                  !.stack = <<"gp_reconciled">> \o c.stack]
     ELSE Return([c EXCEPT !.pd = pd])

\* the record getProcess finds is one it probes
Probes(d, key) ==
  /\ FindIndex(d, key) # 0
  /\ d[FindIndex(d, key)].status = "running"
  /\ d[FindIndex(d, key)].pid # None

\* getProcess's read and probe; probe remembers the outcome of the query
GpLoadProbe(outcome) ==
  /\ ctl.pc = "gp_load"
  /\ LET read == LoadProcesses(file, doc)
     IN IF ~read.ok THEN /\ outcome = "ok"
                         /\ ctl' = Throw(ctl, "LoadFailed")
        ELSE IF ~Probes(read.processes, ctl.arg)
        THEN /\ outcome = "ok"
             /\ ctl' = GetProcessStepProbe(ctl, read.processes, outcome)
        ELSE /\ outcome \in ProbeOutcomes(platform,
                    read.processes[FindIndex(read.processes, ctl.arg)].pid)
             /\ ctl' = [GetProcessStepProbe(ctl, read.processes, outcome)
                          EXCEPT !.probe = outcome]
  /\ UNCHANGED <<doc, logFiles, children, nextId, callsLeft, file>>
  /\ UNCHANGED outside

\* --- updateProcessStatus -> storage.updateProcess ------------------------
\* an updateProcess that creates the record when the id is not there
UpdateLoadStepUpserting(c, d) ==
  IF IndexOfId(d, c.updId) = 0
  THEN [c EXCEPT !.pc = "upd_write", !.killOutcome = None,
                 !.buf = Append(d, Merge([NoRec EXCEPT !.id = c.updId],
                                         c.updates))]
  ELSE [c EXCEPT !.pc = "upd_write", !.killOutcome = None,
                 !.buf = UpdateProcessDoc(d, c.updId, c.updates)]

\* storage.updateProcess after loadProcesses: 'Process <id> not found' when
\* findIndex gives -1, else the merged record in the array to save
UpdateLoadStep(c, d) ==
  IF IndexOfId(d, c.updId) = 0
  THEN Throw(c, "StorageNotFound")
  ELSE [c EXCEPT !.pc = "upd_write", !.killOutcome = None,
                 !.buf = UpdateProcessDoc(d, c.updId, c.updates)]

UpdLoad ==
  /\ ctl.pc = "upd_load"
  /\ ctl' = IF LoadProcesses(file, doc).ok
            THEN UpdateLoadStep(ctl, LoadProcesses(file, doc).processes)
            ELSE Throw(ctl, "LoadFailed")
  /\ UNCHANGED <<doc, logFiles, children, nextId, callsLeft, file>>
  /\ UNCHANGED outside

UpdWrite ==
  /\ ctl.pc = "upd_write"
  /\ doc' = ctl.buf
  /\ ctl' = Return([ctl EXCEPT !.writes = @ + 1, !.buf = <<>>])
  /\ file' = "ok"
  /\ UNCHANGED <<logFiles, children, nextId, callsLeft>>
  /\ UNCHANGED outside

\* --- stopProcess ---------------------------------------------------------
CallStop(key, force) ==
  /\ ctl.pc = "done"
  /\ callsLeft > 0
  /\ callsLeft' = callsLeft - 1
  /\ ctl' = Call("stop", key, force, "gp_load", <<"stop_check", "stop">>)
  /\ UNCHANGED <<doc, logFiles, children, nextId, file>>
  /\ UNCHANGED outside

\* const signal = force ? 'SIGKILL' : 'SIGTERM'
SignalFor(force) == IF force THEN "SIGKILL" ELSE "SIGTERM"

\* What the terminate call of stopProcess can come to, for the platform and
\* the pid. With no pid the call throws before it reaches the OS ("invalid").
\* POSIX, process.kill(pid, signal): it returns ("ok"), or throws EPERM, for
\* a process the OS has, and throws ESRCH for one it has not. win32, taskkill:
\* exit code 0 ("exit0") or another ("exitOther") for a process the OS has,
\* 128 ("exit128") for one it has not, or taskkill cannot be launched
\* ("launchError").
KillOutcomes(pf, pid) ==
  IF pid = None THEN {"invalid"}
  ELSE IF pf = "win32"
  THEN IF PidAlive(pid) THEN {"exit0", "exitOther", "launchError"}
       ELSE {"exit128", "launchError"}
  ELSE IF PidAlive(pid) THEN {"ok", "EPERM"}
       ELSE {"ESRCH"}

AllKillOutcomes ==
  {"invalid", "ok", "EPERM", "ESRCH", "exit0", "exit128", "exitOther",
   "launchError"}

\* a stopProcess that takes the taskkill exit code 128 for an error, and an
\* EPERM of process.kill for a success
AfterKillConfused(c, pf, outcome) ==
  IF outcome \in {"ok", "exit0", "EPERM"}
  THEN [c EXCEPT !.osLog = Append(@, [call |-> "kill", pid |-> c.pd.pid,
                                      sig |-> SignalFor(c.force)]),
                 !.pc = "upd_load", !.updId = c.pd.id,
                 !.updates = StatusUpdates("stopped", StoppedBy("user")),
                 !.stack = <<"stop_updated">> \o c.stack]
  ELSE Throw(c, "KillFailed")

\* a stopProcess that checks the process after a terminate call that went
\* through, before it records the stop
AfterKillChecking(c, pf, outcome) ==
  LET logged == [c EXCEPT !.osLog = Append(@,
                    [call |-> IF pf = "win32" THEN "taskkill" ELSE "kill",
                     pid |-> c.pd.pid, sig |-> SignalFor(c.force)])]
      checked == [logged EXCEPT !.osLog = Append(@,
                    [call |-> "probe", pid |-> c.pd.pid, sig |-> None])]
      update(from, who) ==
        [from EXCEPT !.pc = "upd_load", !.updId = c.pd.id,
           !.updates = StatusUpdates("stopped", StoppedBy(who)),
           !.stack = <<"stop_updated">> \o c.stack]
  IN CASE outcome \in {"ok", "exit0", "exit128"} -> update(checked, "user")
       [] outcome = "ESRCH" -> update(logged, "system")
       [] outcome = "invalid" -> Throw(c, "KillFailed")
       [] OTHER -> [Throw(c, "KillFailed") EXCEPT !.osLog = logged.osLog]

\* the branch of stopProcess after the terminate call: stoppedBy user when
\* process.kill returned or taskkill exited with 0 or 128, stoppedBy system
\* when process.kill threw ESRCH, rethrow otherwise
AfterKill(c, pf, outcome) ==
  LET logged == [c EXCEPT !.osLog = Append(@,
                    [call |-> IF pf = "win32" THEN "taskkill" ELSE "kill",
                     pid |-> c.pd.pid, sig |-> SignalFor(c.force)])]
      update(who) ==
        [logged EXCEPT !.pc = "upd_load", !.updId = c.pd.id,
           !.updates = StatusUpdates("stopped", StoppedBy(who)),
           !.stack = <<"stop_updated">> \o c.stack]
      failed(err) ==
        [Throw(c, err) EXCEPT !.osLog = logged.osLog]
  IN CASE outcome \in {"ok", "exit0", "exit128"} -> update("user")
       [] outcome = "ESRCH" -> update("system")
       [] outcome = "invalid" -> Throw(c, "KillFailed")
       [] OTHER -> failed("KillFailed")

StopKill(outcome) ==
  /\ ctl.pc = "stop_kill"
  /\ outcome \in KillOutcomes(platform, ctl.pd.pid)
  /\ ctl' = [AfterKill(ctl, platform, outcome) EXCEPT !.killOutcome = outcome]
  /\ UNCHANGED <<doc, logFiles, children, nextId, callsLeft, file>>
  /\ UNCHANGED outside

\* --- the stop command of the command line -------------------------------
\* the most names one stop command is given
MaxNames == 2

\* bgtm stop <names...>: the lists of names
NameLists == UNION {[1..n -> LookupKeys] : n \in 1..MaxNames}

\* CLI.stopProcesses(names, options) enters its loop
CallStops(names, force) ==
  /\ ctl.pc = "done"
  /\ callsLeft > 0
  /\ callsLeft' = callsLeft - 1
  /\ ctl' = StopsAttempt([IdleCtl EXCEPT !.kind = "stops", !.names = names,
                                         !.force = force], 1)
  /\ UNCHANGED <<doc, logFiles, children, nextId, file>>
  /\ UNCHANGED outside

\* --- startProcess --------------------------------------------------------
\* the record startProcess builds from its arguments for the n-th id (its
\* pid is read from the child after the spawn)
ProcessData(n, command, options) ==
  [NoRec EXCEPT
     !.id = Ids[n],
     !.name = IF options.name # None THEN options.name ELSE DefaultNames[n],
     !.command = command,
     !.status = "running",
     !.startTime = Now,
     !.workingDirectory =
        IF options.workingDirectory # None THEN options.workingDirectory
        ELSE Cwd,
     !.environment =
        IF options.environment # None THEN options.environment ELSE EmptyEnv,
     !.logFile = LogFileNames[n],
     !.autostart = options.autostart]

\* startProcess up to fs.open: uuidv4(), the defaults, the log directory
StartEnter(c, command, options) ==
  [c EXCEPT !.new = ProcessData(nextId + 1, command, options),
            !.options = options,
            !.pc = "st_spawn"]

CallStart(in) ==
  /\ ctl.pc = "done"
  /\ callsLeft > 0
  /\ callsLeft' = callsLeft - 1
  /\ nextId < MaxStarts
  /\ ctl' = StartEnter(Call("start", None, FALSE, "st_spawn", <<"start">>),
                       in.command, in.options)
  /\ nextId' = nextId + 1
  /\ UNCHANGED <<doc, logFiles, children, file>>
  /\ UNCHANGED outside

\* fs.open creates the log file, then spawn. The child runs ("ok"); or spawn
\* itself throws ("throws"); or the OS could not run it: the child has no pid
\* and its 'error' event is emitted on the next tick, before saveProcess has
\* read anything and so before the listeners are attached. An 'error' event
\* nobody listens to is an uncaught exception, which ends the instance
\* ("enoent") unless the host program catches it ("enoent_caught").
SpawnOutcomes == {"ok", "enoent", "enoent_caught", "throws"}

SpawnError ==
  [kind |-> "error", code |-> None, signal |-> None,
   message |-> SpawnErrorMessage]

StSpawn(outcome) ==
  /\ ctl.pc = "st_spawn"
  /\ logFiles' = logFiles \cup {ctl.new.logFile}
  /\ CASE outcome = "ok" ->
            /\ children' = Append(children,
                 Child(ctl.new.id, Pids[Len(children) + 1], TRUE, NoNote,
                       SpawnEnvironment(BaseEnv, ctl.options.environment)))
            /\ ctl' = [ctl EXCEPT !.new.pid = Pids[Len(children) + 1],
                                  !.child = Len(children) + 1,
                                  !.pc = "st_save_load"]
       [] outcome = "enoent" ->
            /\ children' = Abandoned(Append(children,
                 [Child(ctl.new.id, None, FALSE, SpawnError,
                        SpawnEnvironment(BaseEnv, ctl.options.environment))
                    EXCEPT !.h = "lost"]))
            /\ ctl' = Throw(ctl, "UncaughtSpawnError")
       [] outcome = "enoent_caught" ->
            /\ children' = Append(children,
                 [Child(ctl.new.id, None, FALSE, SpawnError,
                        SpawnEnvironment(BaseEnv, ctl.options.environment))
                    EXCEPT !.h = "lost"])
            /\ ctl' = [ctl EXCEPT !.child = Len(children) + 1,
                                  !.pc = "st_save_load"]
       [] OTHER ->
            /\ children' = children
            /\ ctl' = Throw(ctl, "SpawnFailed")
  /\ UNCHANGED <<doc, nextId, callsLeft, file>>
  /\ UNCHANGED outside

\* storage.saveProcess reads the document
StSaveLoad ==
  /\ ctl.pc = "st_save_load"
  /\ ctl' = IF LoadProcesses(file, doc).ok
            THEN [ctl EXCEPT
                    !.buf = SaveProcessDoc(LoadProcesses(file, doc).processes,
                                           ctl.new),
                    !.pc = "st_save_write"]
            ELSE Throw(ctl, "LoadFailed")
  /\ UNCHANGED <<doc, logFiles, children, nextId, callsLeft, file>>
  /\ UNCHANGED outside

\* storage.saveProcess writes it; then the listeners are attached
StSaveWrite ==
  /\ ctl.pc = "st_save_write"
  /\ doc' = ctl.buf
  /\ children' = [children EXCEPT ![ctl.child].listening = TRUE]
  /\ ctl' = [ctl EXCEPT !.writes = @ + 1, !.buf = <<>>, !.pc = "st_close"]
  /\ file' = "ok"
  /\ UNCHANGED <<logFiles, nextId, callsLeft>>
  /\ UNCHANGED outside

\* logStream.close() resolves: return processData
StClose ==
  /\ ctl.pc = "st_close"
  /\ ctl' = Return(ctl)
  /\ UNCHANGED <<doc, logFiles, children, nextId, callsLeft, file>>
  /\ UNCHANGED outside

\* --- restartProcess ------------------------------------------------------
CallRestart(key) ==
  /\ ctl.pc = "done"
  /\ callsLeft > 0
  /\ callsLeft' = callsLeft - 1
  /\ nextId < MaxSpawns
  /\ ctl' = Call("restart", key, FALSE, "gp_load", <<"rs_check">>)
  /\ UNCHANGED <<doc, logFiles, children, nextId, file>>
  /\ UNCHANGED outside

\* the options restartProcess passes to startProcess
RestartOptions(old) ==
  [name |-> old.name, workingDirectory |-> old.workingDirectory,
   environment |-> old.environment, autostart |-> old.autostart]

\* after the stop (and its one-second wait) or at once for a record that is
\* not running: startProcess(oldProcess.command, ...)
RsStart ==
  /\ ctl.pc = "rs_start"
  /\ ctl' = StartEnter([ctl EXCEPT !.stack = <<"rs_delete">> \o ctl.stack],
                       ctl.old.command, RestartOptions(ctl.old))
  /\ nextId' = nextId + 1
  /\ UNCHANGED <<doc, logFiles, children, callsLeft, file>>
  /\ UNCHANGED outside

\* --- storage.deleteProcess -----------------------------------------------
DeleteLoadStep(c, d) ==
  IF Len(DeleteProcessDoc(d, c.delId)) = Len(d)
  THEN Throw(c, "StorageNotFound")
  ELSE [c EXCEPT !.pc = "del_write", !.buf = DeleteProcessDoc(d, c.delId)]

DelLoad ==
  /\ ctl.pc = "del_load"
  /\ ctl' = IF LoadProcesses(file, doc).ok
            THEN DeleteLoadStep(ctl, LoadProcesses(file, doc).processes)
            ELSE Throw(ctl, "LoadFailed")
  /\ UNCHANGED <<doc, logFiles, children, nextId, callsLeft, file>>
  /\ UNCHANGED outside

DelWrite ==
  /\ ctl.pc = "del_write"
  /\ doc' = ctl.buf
  /\ ctl' = Return([ctl EXCEPT !.writes = @ + 1, !.buf = <<>>,
                               !.deleted = Append(@, ctl.delId)])
  /\ file' = "ok"
  /\ UNCHANGED <<logFiles, children, nextId, callsLeft>>
  /\ UNCHANGED outside

\* --- the store called directly -------------------------------------------
\* ids callers of the store address
StorageIds == {"id1", "id2"}

\* storage.updateProcess(id, {status: 'stopped'})
CallUpdate(id) ==
  /\ ctl.pc = "done"
  /\ callsLeft > 0
  /\ callsLeft' = callsLeft - 1
  /\ ctl' = [Call("update", id, FALSE, "upd_load", <<"storage">>)
               EXCEPT !.updId = id, !.updates = [status |-> "stopped"]]
  /\ UNCHANGED <<doc, logFiles, children, nextId, file>>
  /\ UNCHANGED outside

\* storage.deleteProcess(id)
CallDelete(id) ==
  /\ ctl.pc = "done"
  /\ callsLeft > 0
  /\ callsLeft' = callsLeft - 1
  /\ ctl' = [Call("delete", id, FALSE, "del_load", <<"storage">>)
               EXCEPT !.delId = id]
  /\ UNCHANGED <<doc, logFiles, children, nextId, file>>
  /\ UNCHANGED outside

\* --- cleanup -------------------------------------------------------------
CallCleanup ==
  /\ ctl.pc = "done"
  /\ callsLeft > 0
  /\ callsLeft' = callsLeft - 1
  /\ ctl' = Call("cleanup", None, FALSE, "cl_load", <<>>)
  /\ UNCHANGED <<doc, logFiles, children, nextId, file>>
  /\ UNCHANGED outside

\* processes.filter(p => p.status !== 'running')
StoppedProcesses(d) == SelectSeq(d, LAMBDA p : p.status # "running")

\* storage.getAllProcesses reads the document; the loop starts
CleanupLoadStep(c, d) ==
  LET c1 == [c EXCEPT !.snapshot = d, !.queue = StoppedProcesses(d)]
  IN IF c1.queue = <<>> THEN Finish(c1, NoRec) ELSE CleanupItem(c1)

ClLoad ==
  /\ ctl.pc = "cl_load"
  /\ ctl' = IF LoadProcesses(file, doc).ok
            THEN CleanupLoadStep(ctl, LoadProcesses(file, doc).processes)
            ELSE Throw(ctl, "LoadFailed")
  /\ UNCHANGED <<doc, logFiles, children, nextId, callsLeft, file>>
  /\ UNCHANGED outside

\* after fs.unlink of the head's log file: count it when it succeeded,
\* swallow the error when it failed; then deleteProcess
AfterUnlink(c, succeeded) ==
  [c EXCEPT !.cleanedLogFiles = IF succeeded THEN @ + 1 ELSE @,
            !.unlinks = Append(@, [id |-> Head(c.queue).id,
                                   ok |-> succeeded]),
            !.pc = "del_load", !.delId = Head(c.queue).id,
            !.stack = <<"cl_next">> \o c.stack]

\* fs.unlink succeeds only on a file that exists, and may fail on one that
\* does (permissions, a busy file)
ClUnlink(succeeds) ==
  /\ ctl.pc = "cl_unlink"
  /\ succeeds => Head(ctl.queue).logFile \in logFiles
  /\ logFiles' = IF succeeds THEN logFiles \ {Head(ctl.queue).logFile}
                 ELSE logFiles
  /\ ctl' = AfterUnlink(ctl, succeeds)
  /\ UNCHANGED <<doc, children, nextId, callsLeft, file>>
  /\ UNCHANGED outside

\* --- getLogs (without follow) --------------------------------------------
\* a text is a sequence of characters
Newline == "\n"
Chars == {"a", "b", Newline}
Texts == UNION {[1..n -> Chars] : n \in 0..MaxLen}

\* tail values callers pass; 0 stands for no tail option as well
Tails == 0..MaxTail

\* content.split('\n'): the pieces between the newlines, at least one
RECURSIVE Split(_)
Split(t) ==
  IF \A k \in 1..Len(t) : t[k] # Newline
  THEN <<t>>
  ELSE LET k == CHOOSE k \in 1..Len(t) :
                  t[k] = Newline /\ \A j \in 1..(k-1) : t[j] # Newline
       IN <<SubSeq(t, 1, k - 1)>> \o Split(SubSeq(t, k + 1, Len(t)))

\* lines.slice(-n) for n >= 1: the last n elements, all when there are fewer
SliceLast(lines, n) ==
  SubSeq(lines, IF Len(lines) > n THEN Len(lines) - n + 1 ELSE 1, Len(lines))

\* tailLines.join('\n')
RECURSIVE Join(_)
Join(lines) ==
  IF lines = <<>> THEN <<>>
  ELSE IF Len(lines) = 1 THEN lines[1]
  ELSE lines[1] \o <<Newline>> \o Join(Tail(lines))

\* what getLogs returns for the content of the log file:
\* options.tail ? lines.slice(-options.tail) : lines, joined
GetLogsText(content, tail) ==
  Join(IF tail # 0 THEN SliceLast(Split(content), tail) ELSE Split(content))

CallLogs(key, tail) ==
  /\ ctl.pc = "done"
  /\ callsLeft > 0
  /\ callsLeft' = callsLeft - 1
  /\ ctl' = [Call("logs", key, FALSE, "gp_load", <<"logs">>)
               EXCEPT !.tail = tail]
  /\ UNCHANGED <<doc, logFiles, children, nextId, file>>
  /\ UNCHANGED outside

\* fs.readFile(processData.logFile): the tail of its content, or
\* 'Log file not found' when the file is gone
LgRead ==
  /\ ctl.pc = "lg_read"
  /\ ctl' = IF ctl.pd.logFile \in logFiles
            THEN [Finish(ctl, NoRec) EXCEPT
                    !.tail = ctl.tail,
                    !.out = GetLogsText(logText, ctl.tail)]
            ELSE [Throw(ctl, "LogFileNotFound") EXCEPT !.tail = ctl.tail]
  /\ UNCHANGED <<doc, logFiles, children, nextId, callsLeft, file>>
  /\ UNCHANGED outside

\* --- listProcesses ------------------------------------------------------
CallList(includeAll) ==
  /\ ctl.pc = "done"
  /\ callsLeft > 0
  /\ callsLeft' = callsLeft - 1
  /\ ctl' = [Call("list", None, FALSE, "ls_load", <<>>)
               EXCEPT !.includeAll = includeAll]
  /\ UNCHANGED <<doc, logFiles, children, nextId, file>>
  /\ UNCHANGED outside

\* a listProcesses that returns every record whatever includeAll is
ListResultUnfiltered(d, includeAll) == d

\* processes.filter(p => p.status === 'running') unless includeAll
ListResult(d, includeAll) ==
  IF includeAll THEN d ELSE SelectSeq(d, LAMBDA p : p.status = "running")

\* storage.getAllProcesses reads the document; the filter; return
ListLoad ==
  /\ ctl.pc = "ls_load"
  /\ ctl' = IF LoadProcesses(file, doc).ok
            THEN [Finish(ctl, NoRec) EXCEPT
                    !.includeAll = ctl.includeAll,
                    !.list = ListResult(LoadProcesses(file, doc).processes,
                                        ctl.includeAll)]
            ELSE [Throw(ctl, "LoadFailed") EXCEPT
                    !.includeAll = ctl.includeAll]
  /\ UNCHANGED <<doc, logFiles, children, nextId, callsLeft, file>>
  /\ UNCHANGED outside

\* --- Storage.backup ------------------------------------------------------
BackupPath == "backup.json"

CallBackup ==
  /\ ctl.pc = "done"
  /\ callsLeft > 0
  /\ callsLeft' = callsLeft - 1
  /\ ctl' = Call("backup", BackupPath, FALSE, "bk_load", <<>>)
  /\ UNCHANGED <<doc, logFiles, children, nextId, file>>
  /\ UNCHANGED outside

\* loadProcesses of backup
BkLoad ==
  /\ ctl.pc = "bk_load"
  /\ ctl' = IF LoadProcesses(file, doc).ok
            THEN [ctl EXCEPT !.buf = LoadProcesses(file, doc).processes,
                             !.pc = "bk_write"]
            ELSE Throw(ctl, "LoadFailed")
  /\ UNCHANGED <<doc, logFiles, children, nextId, callsLeft, file>>
  /\ UNCHANGED outside

\* a backup that keeps only the running records
BackupDataRunningOnly(processes) ==
  [kind |-> "valid", timestamp |-> Now, version |-> "1.0.0",
   processes |-> SelectSeq(processes, LAMBDA p : p.status = "running")]

\* backupData = {timestamp, version: '1.0.0', processes}, as a file
BackupData(processes) ==
  [kind |-> "valid", timestamp |-> Now, version |-> "1.0.0",
   processes |-> processes]

\* fs.writeFile(backupPath, ...); of remembers the document the backup is of
BkWrite ==
  /\ ctl.pc = "bk_write"
  /\ backupFile' = [kind |-> BackupData(ctl.buf).kind,
                    processes |-> BackupData(ctl.buf).processes,
                    of |-> ctl.buf]
  /\ ctl' = Finish(ctl, NoRec)
  /\ UNCHANGED <<doc, logFiles, children, nextId, callsLeft, file, platform,
                 peer, logText, ctorInit>>

\* --- Storage.restore -----------------------------------------------------
CallRestore ==
  /\ ctl.pc = "done"
  /\ callsLeft > 0
  /\ callsLeft' = callsLeft - 1
  /\ ctl' = Call("restore", BackupPath, FALSE, "rt_read", <<>>)
  /\ UNCHANGED <<doc, logFiles, children, nextId, file>>
  /\ UNCHANGED outside

\* a restore that takes whatever the backup file holds
RestoreReadUnvalidated(c, b) ==
  IF b.kind \in {"none", "garbage"} THEN Throw(c, "RestoreFailed")
  ELSE [c EXCEPT !.buf = b.processes, !.pc = "rt_write"]

\* JSON.parse(readFile(backupPath)) and the format check: the file is
\* missing or does not parse, or has no processes, or processes is no array
\* (each rethrown as 'Failed to restore backup: ...'), or it is valid
RestoreRead(c, b) ==
  CASE b.kind \in {"none", "garbage"} -> Throw(c, "RestoreFailed")
    [] b.kind \in {"noProcesses", "notArray"} -> Throw(c, "InvalidFormat")
    [] OTHER -> [c EXCEPT !.buf = b.processes, !.pc = "rt_write"]

RtRead ==
  /\ ctl.pc = "rt_read"
  /\ ctl' = RestoreRead(ctl, backupFile)
  /\ UNCHANGED <<doc, logFiles, children, nextId, callsLeft, file>>
  /\ UNCHANGED outside

\* saveProcesses(backupData.processes); return backupData.processes.length
RtWrite ==
  /\ ctl.pc = "rt_write"
  /\ doc' = ctl.buf
  /\ file' = "ok"
  /\ ctl' = [Finish([ctl EXCEPT !.writes = @ + 1], NoRec)
               EXCEPT !.count = Len(ctl.buf)]
  /\ UNCHANGED <<logFiles, children, nextId, callsLeft>>
  /\ UNCHANGED outside

\* --- the files, from outside ---------------------------------------------
\* no operation and no listener is at work
Quiet ==
  /\ ctl.pc = "done"
  /\ \A n \in 1..Len(children) : children[n].h \notin {"heard", "write"}

\* processes.json is left unparsable between operations (an edit by hand,
\* a write cut short by a crash)
DocumentCorrupted ==
  /\ Quiet
  /\ file = "ok"
  /\ file' = "corrupt"
  /\ doc' = <<>>
  /\ UNCHANGED <<logFiles, children, nextId, callsLeft, ctl>>
  /\ UNCHANGED outside

\* processes.json is deleted between operations
DocumentRemoved ==
  /\ Quiet
  /\ file = "ok"
  /\ file' = "absent"
  /\ doc' = <<>>
  /\ UNCHANGED <<logFiles, children, nextId, callsLeft, ctl>>
  /\ UNCHANGED outside

\* the file at the backup path is one the user supplies: JSON without a
\* processes field, with one that is no array, or no JSON
DamagedBackups == {"noProcesses", "notArray", "garbage"}

BackupReplaced(kind) ==
  /\ Quiet
  /\ backupFile.kind # kind
  /\ backupFile' = [kind |-> kind, processes |-> <<>>, of |-> <<>>]
  /\ UNCHANGED <<doc, logFiles, children, nextId, callsLeft, ctl, file,
                 platform, peer, logText, ctorInit>>

\* --- saveProcesses, seen from a concurrent reader ------------------------
\* positions at which an operation is inside saveProcesses
WritePcs == {"upd_write", "st_save_write", "del_write", "rt_write"}

\* a save is in flight, of an operation or of a listener
SaveInFlight ==
  \/ ctl.pc \in WritePcs
  \/ \E n \in 1..Len(children) : children[n].h = "write"

\* fs.writeFile opens processes.json for writing, which empties it, and
\* writes the new text afterwards: until the write step of the save the
\* file holds no JSON
SaveTruncates ==
  /\ SaveInFlight
  /\ file = "ok"
  /\ file' = "torn"
  /\ doc' = <<>>
  /\ UNCHANGED <<logFiles, children, nextId, callsLeft, ctl>>
  /\ UNCHANGED outside

\* --- a second invocation on the same document ---------------------------
\* Another bg-tm process (its own ProcessManager and Storage on the same
\* processes.json) runs startProcess once: its uuid and the pid of its child
\* are not those of this instance.
PeerId == "idP"
PeerPid == "pidP"

PeerData ==
  [ProcessData(1, "serve", NoOptions) EXCEPT
     !.id = PeerId, !.name = "process-P", !.pid = PeerPid,
     !.logFile = "logs/idP.log"]

\* its startProcess up to and including spawn
PeerStart ==
  /\ peer.pc = "none"
  /\ peer' = [peer EXCEPT !.new = PeerData, !.pc = "save_load"]
  /\ UNCHANGED <<doc, logFiles, children, nextId, callsLeft, ctl, file,
                 backupFile, platform, logText, ctorInit>>

\* its saveProcess reads the document
PeerSaveLoad ==
  /\ peer.pc = "save_load"
  /\ peer' = IF LoadProcesses(file, doc).ok
             THEN [peer EXCEPT
                     !.buf = SaveProcessDoc(LoadProcesses(file, doc).processes,
                                            peer.new),
                     !.pc = "save_write"]
             ELSE [peer EXCEPT !.pc = "failed"]
  /\ UNCHANGED <<doc, logFiles, children, nextId, callsLeft, ctl, file,
                 backupFile, platform, logText, ctorInit>>

\* a write that keeps the records saved since the writer's load
WriteFileMerging(current, text) ==
  IF \E i \in 1..Len(current) : IndexOfId(text, current[i].id) = 0
  THEN current \o SelectSeq(text, LAMBDA p : IndexOfId(current, p.id) = 0)
  ELSE text

\* fs.writeFile: the file holds the text written, whatever it held
WriteFile(current, text) == text

\* its saveProcess writes the document it computed
PeerSaveWrite ==
  /\ peer.pc = "save_write"
  /\ doc' = WriteFile(doc, peer.buf)
  /\ file' = "ok"
  /\ peer' = [peer EXCEPT !.pc = "close"]
  /\ UNCHANGED <<logFiles, children, nextId, callsLeft, ctl, backupFile,
                 platform, logText, ctorInit>>

\* its startProcess returns processData
PeerClose ==
  /\ peer.pc = "close"
  /\ peer' = [peer EXCEPT !.value = peer.new, !.buf = <<>>, !.pc = "done"]
  /\ UNCHANGED <<doc, logFiles, children, nextId, callsLeft, ctl, file,
                 backupFile, platform, logText, ctorInit>>

\* --- Storage.init --------------------------------------------------------
\* init after mkdir: fs.access(processesFile) fails with ENOENT when there is
\* no file, and only then init goes on to write the empty document
InitWrites(f) == f = "absent"

\* The init() called in the Storage constructor, which nobody awaits: its
\* access
ConstructorInitAccess ==
  /\ ctorInit = "access"
  /\ ctorInit' = IF InitWrites(file) THEN "write" ELSE "done"
  /\ UNCHANGED <<doc, logFiles, children, nextId, callsLeft, ctl, file,
                 backupFile, platform, peer, logText>>

\* its fs.writeFile(processesFile, '[]')
ConstructorInitWrite ==
  /\ ctorInit = "write"
  /\ doc' = <<>>
  /\ file' = "ok"
  /\ ctorInit' = "done"
  /\ UNCHANGED <<logFiles, children, nextId, callsLeft, ctl, backupFile,
                 platform, peer, logText>>

\* The init() of _ensureInitialized, which the first operation awaits: its
\* access
EnsureInitAccess ==
  /\ ctl.pc = "in_access"
  /\ ctl' = IF InitWrites(file) THEN [ctl EXCEPT !.pc = "in_write"]
            ELSE Finish(ctl, NoRec)
  /\ UNCHANGED <<doc, logFiles, children, nextId, callsLeft, file>>
  /\ UNCHANGED outside

\* its fs.writeFile(processesFile, '[]'); this._initialized = true
EnsureInitWrite ==
  /\ ctl.pc = "in_write"
  /\ doc' = <<>>
  /\ file' = "ok"
  /\ ctl' = Finish([ctl EXCEPT !.writes = @ + 1], NoRec)
  /\ UNCHANGED <<logFiles, children, nextId, callsLeft>>
  /\ UNCHANGED outside

\* --- the instance's process ----------------------------------------------
\* The command line program holds one instance per invocation: when the
\* operation has resolved and no listener is at work the process ends (the
\* children are unref'd and keep nothing alive); when the operation rejected,
\* handleError exits at once.
InstanceEnds ==
  /\ ctl.pc = "done"
  /\ \E n \in 1..Len(children) : children[n].listening
  /\ ctl.ok => \A n \in 1..Len(children) :
                 children[n].h \notin {"heard", "write"}
  /\ children' = Abandoned(children)
  /\ UNCHANGED <<doc, logFiles, nextId, callsLeft, ctl, file>>
  /\ UNCHANGED outside

\* ------------------------------------------------------------ specification
\* os.platform() === 'win32', or anything else
Platforms == {"posix", "win32"}

\* no backup file written yet
NoBackup == [kind |-> "none", processes |-> <<>>, of |-> <<>>]

\* no other invocation at work
NoPeer == [pc |-> "none", new |-> NoRec, buf |-> <<>>, value |-> NoRec]

Init ==
  /\ doc = <<>>
  /\ logFiles = {}
  /\ children = <<>>
  /\ nextId = 0
  /\ callsLeft = MaxCalls
  /\ ctl = IdleCtl
  /\ file = "ok"
  /\ backupFile = NoBackup
  /\ platform \in Platforms
  /\ peer = NoPeer
  /\ logText = <<>>
  /\ ctorInit = "done"

Next ==
  \/ \E in \in StartInputs : CallStart(in)
  \/ \E o \in SpawnOutcomes : StSpawn(o)
  \/ StSaveLoad
  \/ StSaveWrite
  \/ StClose
  \/ \E k \in LookupKeys : CallGet(k)
  \/ \E b \in BOOLEAN : CallList(b)
  \/ ListLoad
  \/ \E k \in LookupKeys, t \in Tails : CallLogs(k, t)
  \/ LgRead
  \/ GpLoad
  \/ UpdLoad
  \/ UpdWrite
  \/ \E k \in LookupKeys, f \in BOOLEAN : CallStop(k, f)
  \/ \E o \in AllKillOutcomes : StopKill(o)
  \/ \E k \in LookupKeys : CallRestart(k)
  \/ RsStart
  \/ DelLoad
  \/ DelWrite
  \/ CallCleanup
  \/ ClLoad
  \/ \E b \in BOOLEAN : ClUnlink(b)
  \/ \E n \in 1..MaxSpawns, e \in Exits : ChildExits(n, e)
  \/ \E n \in 1..MaxSpawns : ListenerLoad(n)
  \/ \E n \in 1..MaxSpawns : ListenerWrite(n)
  \/ InstanceEnds

Spec == Init /\ [][Next]_vars

\* the store used directly as well (backup, restore), with the files
\* changed from outside between operations
StoreSteps ==
  \/ CallBackup
  \/ BkLoad
  \/ BkWrite
  \/ CallRestore
  \/ RtRead
  \/ RtWrite
  \/ DocumentCorrupted
  \/ DocumentRemoved
  \/ \E k \in DamagedBackups : BackupReplaced(k)

NextFaulty ==
  \/ Next
  \/ StoreSteps

SpecFaulty == Init /\ [][NextFaulty]_vars

\* an instance whose caller starts and lists processes and backs up and
\* restores the store; none of these operations looks at the platform
InitStore ==
  /\ doc = <<>>
  /\ logFiles = {}
  /\ children = <<>>
  /\ nextId = 0
  /\ callsLeft = MaxCallsStore
  /\ ctl = IdleCtl
  /\ file = "ok"
  /\ backupFile = NoBackup
  /\ platform = "posix"
  /\ peer = NoPeer
  /\ logText = <<>>
  /\ ctorInit = "done"

NextStore ==
  \/ \E in \in StartInputs : CallStart(in)
  \/ \E o \in SpawnOutcomes : StSpawn(o)
  \/ StSaveLoad
  \/ StSaveWrite
  \/ StClose
  \/ \E b \in BOOLEAN : CallList(b)
  \/ ListLoad
  \/ \E n \in 1..MaxSpawns, e \in Exits : ChildExits(n, e)
  \/ \E n \in 1..MaxSpawns : ListenerLoad(n)
  \/ \E n \in 1..MaxSpawns : ListenerWrite(n)
  \/ InstanceEnds
  \/ StoreSteps

SpecStore == InitStore /\ [][NextStore]_vars

\* the instance with the two halves of fs.writeFile told apart
NextTorn ==
  \/ Next
  \/ SaveTruncates

SpecTorn == Init /\ [][NextTorn]_vars

\* the instance starting and listing processes while a second invocation
\* starts one
NextPeers ==
  \/ \E in \in StartInputs : CallStart(in)
  \/ \E o \in SpawnOutcomes : StSpawn(o)
  \/ StSaveLoad
  \/ StSaveWrite
  \/ StClose
  \/ \E b \in BOOLEAN : CallList(b)
  \/ ListLoad
  \/ \E n \in 1..MaxSpawns, e \in Exits : ChildExits(n, e)
  \/ \E n \in 1..MaxSpawns : ListenerLoad(n)
  \/ \E n \in 1..MaxSpawns : ListenerWrite(n)
  \/ InstanceEnds
  \/ PeerStart
  \/ PeerSaveLoad
  \/ PeerSaveWrite
  \/ PeerClose

\* none of these operations looks at the platform
InitPeers ==
  /\ Init
  /\ platform = "posix"

SpecPeers == InitPeers /\ [][NextPeers]_vars

\* the instance starting processes and reading their logs, for every
\* content of a log file
InitLogs ==
  /\ doc = <<>>
  /\ logFiles = {}
  /\ children = <<>>
  /\ nextId = 0
  /\ callsLeft = MaxCalls
  /\ ctl = IdleCtl
  /\ file = "ok"
  /\ backupFile = NoBackup
  /\ platform = "posix"
  /\ peer = NoPeer
  /\ logText \in Texts
  /\ ctorInit = "done"

NextLogs ==
  \/ \E in \in StartInputs : CallStart(in)
  \/ \E o \in SpawnOutcomes : StSpawn(o)
  \/ StSaveLoad
  \/ StSaveWrite
  \/ StClose
  \/ \E k \in LookupKeys, t \in Tails : CallLogs(k, t)
  \/ GpLoad
  \/ UpdLoad
  \/ UpdWrite
  \/ LgRead
  \/ \E n \in 1..MaxSpawns, e \in Exits : ChildExits(n, e)
  \/ \E n \in 1..MaxSpawns : ListenerLoad(n)
  \/ \E n \in 1..MaxSpawns : ListenerWrite(n)
  \/ InstanceEnds

SpecLogs == InitLogs /\ [][NextLogs]_vars

\* the instance starting, looking up and stopping processes, with liveness
\* queries that can fail
NextProbe ==
  \/ \E in \in StartInputs : CallStart(in)
  \/ \E o \in SpawnOutcomes : StSpawn(o)
  \/ StSaveLoad
  \/ StSaveWrite
  \/ StClose
  \/ \E k \in LookupKeys : CallGet(k)
  \/ \E k \in LookupKeys, f \in BOOLEAN : CallStop(k, f)
  \/ \E o \in AllProbeOutcomes : GpLoadProbe(o)
  \/ UpdLoad
  \/ UpdWrite
  \/ \E o \in AllKillOutcomes : StopKill(o)
  \/ \E n \in 1..MaxSpawns, e \in Exits : ChildExits(n, e)
  \/ \E n \in 1..MaxSpawns : ListenerLoad(n)
  \/ \E n \in 1..MaxSpawns : ListenerWrite(n)
  \/ InstanceEnds

SpecProbe == Init /\ [][NextProbe]_vars

\* an instance whose caller starts processes and updates and deletes
\* records through the store
NextApi ==
  \/ \E in \in StartInputs : CallStart(in)
  \/ \E o \in SpawnOutcomes : StSpawn(o)
  \/ StSaveLoad
  \/ StSaveWrite
  \/ StClose
  \/ \E id \in StorageIds : CallUpdate(id)
  \/ \E id \in StorageIds : CallDelete(id)
  \/ UpdLoad
  \/ UpdWrite
  \/ DelLoad
  \/ DelWrite
  \/ \E n \in 1..MaxSpawns, e \in Exits : ChildExits(n, e)
  \/ \E n \in 1..MaxSpawns : ListenerLoad(n)
  \/ \E n \in 1..MaxSpawns : ListenerWrite(n)
  \/ InstanceEnds

SpecApi == InitStore /\ [][NextApi]_vars

\* processes started, and the stop command given one name or several
InitCli ==
  /\ doc = <<>>
  /\ logFiles = {}
  /\ children = <<>>
  /\ nextId = 0
  /\ callsLeft = MaxCallsStore
  /\ ctl = IdleCtl
  /\ file = "ok"
  /\ backupFile = NoBackup
  /\ platform \in Platforms
  /\ peer = NoPeer
  /\ logText = <<>>
  /\ ctorInit = "done"

NextCli ==
  \/ \E in \in StartInputs : CallStart(in)
  \/ \E o \in SpawnOutcomes : StSpawn(o)
  \/ StSaveLoad
  \/ StSaveWrite
  \/ StClose
  \/ \E names \in NameLists, f \in BOOLEAN : CallStops(names, f)
  \/ GpLoad
  \/ UpdLoad
  \/ UpdWrite
  \/ \E o \in AllKillOutcomes : StopKill(o)
  \/ \E n \in 1..MaxSpawns, e \in Exits : ChildExits(n, e)
  \/ \E n \in 1..MaxSpawns : ListenerLoad(n)
  \/ \E n \in 1..MaxSpawns : ListenerWrite(n)
  \/ InstanceEnds

SpecCli == InitCli /\ [][NextCli]_vars

\* An instance just constructed in a data directory that has no
\* processes.json yet: the constructor's init is in flight, and the first
\* operation of the caller is awaiting the init of _ensureInitialized
\* before anything else.
InitFresh ==
  /\ doc = <<>>
  /\ logFiles = {}
  /\ children = <<>>
  /\ nextId = 0
  /\ callsLeft = MaxCalls
  /\ ctl = Call("init", None, FALSE, "in_access", <<>>)
  /\ file = "absent"
  /\ backupFile = NoBackup
  /\ platform = "posix"
  /\ peer = NoPeer
  /\ logText = <<>>
  /\ ctorInit = "access"

NextFresh ==
  \/ ConstructorInitAccess
  \/ ConstructorInitWrite
  \/ EnsureInitAccess
  \/ EnsureInitWrite
  \/ \E in \in StartInputs : CallStart(in)
  \/ \E o \in SpawnOutcomes : StSpawn(o)
  \/ StSaveLoad
  \/ StSaveWrite
  \/ StClose
  \/ \E b \in BOOLEAN : CallList(b)
  \/ ListLoad
  \/ \E n \in 1..MaxSpawns, e \in Exits : ChildExits(n, e)
  \/ \E n \in 1..MaxSpawns : ListenerLoad(n)
  \/ \E n \in 1..MaxSpawns : ListenerWrite(n)
  \/ InstanceEnds

SpecFresh == InitFresh /\ [][NextFresh]_vars

\* Lookups on the documents the store can hold. Storage.saveProcess takes
\* any record, and Storage.restore any array of records: the ids differ, the
\* names are whatever their users chose, the order is that of the saves.
MaxStored == 2
RecordNames == {"web", "id1", "id2"}

\* the n-th record saved, of a process that is no longer there
StoredRecord(n, name, status) ==
  [ProcessData(n, "serve", [FullOptions EXCEPT !.name = name])
     EXCEPT !.pid = Pids[n], !.status = status]

\* the orders in which some of the records are stored
StoredOrders ==
  {s \in UNION {[1..n -> 1..MaxStored] : n \in 0..MaxStored} :
     \A i, j \in 1..Len(s) : i # j => s[i] # s[j]}

StoredDocs ==
  {[i \in 1..Len(s) |-> StoredRecord(s[i], nm[s[i]], st[s[i]])] :
     s \in StoredOrders, nm \in [1..MaxStored -> RecordNames],
     st \in [1..MaxStored -> {"running", "stopped"}]}

InitLookup ==
  /\ doc \in StoredDocs
  /\ logFiles = {}
  /\ children = <<>>
  /\ nextId = MaxStored
  /\ callsLeft = MaxCalls
  /\ ctl = IdleCtl
  /\ file = "ok"
  /\ backupFile = NoBackup
  /\ platform = "posix"
  /\ peer = NoPeer
  /\ logText = <<>>
  /\ ctorInit = "done"

NextLookup ==
  \/ \E k \in LookupKeys : CallGet(k)
  \/ GpLoad
  \/ UpdLoad
  \/ UpdWrite

SpecLookup == InitLookup /\ [][NextLookup]_vars

\* the same instance with a caller that invokes more operations
InitDeep ==
  /\ doc = <<>>
  /\ logFiles = {}
  /\ children = <<>>
  /\ nextId = 0
  /\ callsLeft = MaxCallsDeep
  /\ ctl = IdleCtl
  /\ file = "ok"
  /\ backupFile = NoBackup
  /\ platform \in Platforms
  /\ peer = NoPeer
  /\ logText = <<>>
  /\ ctorInit = "done"

\* longer call sequences, all of them within MaxStarts spawn calls
NextDeep ==
  \/ \E in \in StartInputs : CallStart(in)
  \/ \E o \in SpawnOutcomes : StSpawn(o)
  \/ StSaveLoad
  \/ StSaveWrite
  \/ StClose
  \/ \E k \in LookupKeys : CallGet(k)
  \/ \E b \in BOOLEAN : CallList(b)
  \/ ListLoad
  \/ \E k \in LookupKeys, t \in Tails : CallLogs(k, t)
  \/ LgRead
  \/ GpLoad
  \/ UpdLoad
  \/ UpdWrite
  \/ \E k \in LookupKeys, f \in BOOLEAN : CallStop(k, f)
  \/ \E o \in AllKillOutcomes : StopKill(o)
  \/ /\ nextId < MaxStarts
     /\ \E k \in LookupKeys : CallRestart(k)
  \/ RsStart
  \/ DelLoad
  \/ DelWrite
  \/ CallCleanup
  \/ ClLoad
  \/ \E b \in BOOLEAN : ClUnlink(b)
  \/ \E n \in 1..MaxSpawns, e \in Exits : ChildExits(n, e)
  \/ \E n \in 1..MaxSpawns : ListenerLoad(n)
  \/ \E n \in 1..MaxSpawns : ListenerWrite(n)
  \/ InstanceEnds


SpecDeep == InitDeep /\ [][NextDeep]_vars

\* ================================================================== claims
RecordOf(d, id) == d[IndexOfId(d, id)]

\* the step on which the operation of this kind returns to the caller
Returns(kind) == ctl.kind = kind /\ ctl.pc # "done" /\ ctl'.pc = "done"

\* C1: every startProcess that resolves returns a record with status
\* running, the pid the spawn reported and an id no earlier start was given,
\* and a record with that id is in the document when the call returns.
C1_StartReturnsPersistedRunningRecord ==
  [][ (Returns("start") /\ ctl'.ok) =>
        /\ ctl'.value.status = "running"
        /\ ctl'.value.pid = children[ctl.child].pid
        /\ \A k \in 1..(nextId - 1) : Ids[k] # ctl'.value.id
        /\ \A n \in 1..Len(children) :
             n # ctl.child => children[n].id # ctl'.value.id
        /\ IndexOfId(doc', ctl'.value.id) > 0 ]_vars

\* the stopProcess in flight found its record marked running with a dead
\* process: its getProcess is inside the reconciling updateProcessStatus
StopFoundDead ==
  /\ ctl.kind = "stop"
  /\ ctl.pc \in {"upd_load", "upd_write"}
  /\ Head(ctl.stack) = "gp_reconciled"

\* C2: stopProcess on a record persisted as running whose process is dead
\* resolves, and leaves the record stopped with stoppedBy system.
C2_StopOfDeadProcessResolves ==
  [][ (StopFoundDead /\ ctl'.pc = "done") =>
        /\ ctl'.ok
        /\ IndexOfId(doc', ctl.pd.id) > 0
        /\ RecordOf(doc', ctl.pd.id).status = "stopped"
        /\ RecordOf(doc', ctl.pd.id).stoppedBy = "system" ]_vars

\* stopProcess (called by the caller or by restartProcess) is at its lookup
\* and the document holds the record with a status other than running
StopLooksUpNotRunning ==
  /\ ctl.pc = "gp_load"
  /\ ctl.stack # <<>> /\ Head(ctl.stack) = "stop_check"
  /\ FindIndex(doc, ctl.arg) > 0
  /\ doc[FindIndex(doc, ctl.arg)].status # "running"

\* C3: stopProcess on a record whose persisted status is not running fails
\* with the not-running error, makes no OS call and leaves the document as
\* it is.
C3_StopOfNotRunningFails ==
  [][ (StopLooksUpNotRunning /\ ctl' # ctl) =>
        /\ ctl'.pc = "done"
        /\ ~ctl'.ok
        /\ ctl'.error = "NotRunning"
        /\ ctl'.osLog = ctl.osLog
        /\ ctl'.writes = ctl.writes
        /\ doc' = doc
        /\ children' = children ]_vars

C3_Witness ==
  /\ ctl.kind = "stop" /\ ctl.pc = "done"
  /\ ~ctl.ok /\ ctl.error = "NotRunning"
  /\ ctl.osLog = <<>> /\ ctl.writes = 0
  /\ FindIndex(doc, ctl.arg) > 0

\* getProcess is at its lookup and the document holds the record as running
\* with a pid
GetLooksUpRunning ==
  /\ ctl.kind = "get"
  /\ ctl.pc = "gp_load"
  /\ FindIndex(doc, ctl.arg) > 0
  /\ doc[FindIndex(doc, ctl.arg)].status = "running"
  /\ doc[FindIndex(doc, ctl.arg)].pid # None

\* C4: getProcess on a running record whose pid is dead writes status
\* stopped, stoppedBy system for that id and returns the record as stopped,
\* the document holding it as stopped when the call returns; on a live pid
\* it returns the record as persisted and writes nothing.
C4_GetProcessReconciles ==
  [][ /\ (/\ GetLooksUpRunning /\ ctl' # ctl
          /\ ~PidAlive(doc[FindIndex(doc, ctl.arg)].pid)) =>
           /\ ctl'.pc = "upd_load"
           /\ ctl'.updId = doc[FindIndex(doc, ctl.arg)].id
           /\ ctl'.updates.status = "stopped"
           /\ ctl'.updates.stoppedBy = "system"
           /\ doc' = doc
      /\ (ctl.kind = "get" /\ ctl.pc = "upd_write" /\ ctl' # ctl) =>
           /\ ctl'.pc = "done" /\ ctl'.ok
           /\ ctl'.value = [ctl.pd EXCEPT !.status = "stopped"]
           /\ IndexOfId(doc', ctl'.value.id) > 0
           /\ RecordOf(doc', ctl'.value.id).status = "stopped"
           /\ RecordOf(doc', ctl'.value.id).stoppedBy = "system"
      /\ (/\ GetLooksUpRunning /\ ctl' # ctl
          /\ PidAlive(doc[FindIndex(doc, ctl.arg)].pid)) =>
           /\ ctl'.pc = "done" /\ ctl'.ok
           /\ ctl'.value = doc[FindIndex(doc, ctl.arg)]
           /\ ctl'.writes = 0
           /\ doc' = doc ]_vars

C4_Witness ==
  /\ ctl.kind = "get" /\ ctl.pc = "done" /\ ctl.ok
  /\ ctl.value.status = "stopped"
  /\ ctl.writes = 1
  /\ IndexOfId(doc, ctl.value.id) > 0
  /\ RecordOf(doc, ctl.value.id).stoppedBy = "system"

\* C5: a restartProcess that resolves returns a record with another id than
\* the original's; the original is gone from the document, which holds
\* exactly one record with the new id; command, name, workingDirectory,
\* environment and autostart are the original's.
C5_RestartReplacesRecord ==
  [][ (Returns("restart") /\ ctl'.ok) =>
        /\ ctl'.value.id # ctl.old.id
        /\ IndexOfId(doc', ctl.old.id) = 0
        /\ Cardinality({i \in 1..Len(doc') : doc'[i].id = ctl'.value.id}) = 1
        /\ \A f \in {"command", "name", "workingDirectory", "environment",
                      "autostart"} :
             /\ ctl'.value[f] = ctl.old[f]
             /\ \A i \in 1..Len(doc') :
                  doc'[i].id = ctl'.value.id => doc'[i][f] = ctl.old[f] ]_vars

\* C6: a record whose persisted status is stopped or error keeps that status
\* for as long as it is in the document.
C6_StoppedAndErrorAreTerminal ==
  [][ \A i \in 1..Len(doc) :
        (doc[i].status \in {"stopped", "error"}
           /\ IndexOfId(doc', doc[i].id) > 0) =>
          RecordOf(doc', doc[i].id).status = doc[i].status ]_vars

\* C7: once the operation that met a spawn failure is over, the record of
\* the failed process has status error with the failure message, or the
\* listener that will write it is at work.
C7_SpawnFailureIsRecorded ==
  \A n \in 1..Len(children) :
    (children[n].note.kind = "error" /\ ctl.pc = "done") =>
      \/ children[n].h \in {"heard", "write"}
      \/ /\ IndexOfId(doc, children[n].id) > 0
         /\ RecordOf(doc, children[n].id).status = "error"
         /\ RecordOf(doc, children[n].id).error = children[n].note.message

\* C8: a getProcess that looks its record up after the exit listener of the
\* record's process has done its update returns the record with status
\* stopped and the exit code of the notification.
C8_GetAfterExitReturnsExitCode ==
  [][ \A n \in 1..Len(children) :
        (/\ ctl.kind = "get" /\ ctl.pc = "gp_load" /\ ctl' # ctl
         /\ FindIndex(doc, ctl.arg) > 0
         /\ doc[FindIndex(doc, ctl.arg)].id = children[n].id
         /\ children[n].h = "done") =>
          /\ ctl'.pc = "done" /\ ctl'.ok
          /\ ctl'.value.status = "stopped"
          /\ ctl'.value.exitCode = children[n].note.code ]_vars

\* the document cleanup read, on the step on which cleanup is over
CleanupSnapshot == IF ctl.pc = "cl_load" THEN doc ELSE ctl.snapshot

\* C9: a cleanup that resolves has removed from the document every record it
\* read with a status other than running and no record it read as running,
\* has tried to delete one log file for each record removed, in their order,
\* and returns the number of records removed as its process count.
C9_CleanupRemovesExactlyNotRunning ==
  [][ (Returns("cleanup") /\ ctl'.ok) =>
        /\ \A i \in 1..Len(CleanupSnapshot) :
             (CleanupSnapshot[i].status # "running")
               <=> (IndexOfId(doc', CleanupSnapshot[i].id) = 0)
        /\ [i \in 1..Len(ctl.unlinks) |-> ctl.unlinks[i].id] =
             [i \in 1..Len(StoppedProcesses(CleanupSnapshot)) |->
                StoppedProcesses(CleanupSnapshot)[i].id]
        /\ ctl'.cleanedProcesses = Len(StoppedProcesses(CleanupSnapshot)) ]_vars

\* C10: a cleanup in which the deletion of a log file failed still resolves,
\* has removed every record it read as not running, and returns as its log
\* file count the number of deletions that succeeded, at most its process
\* count.
C10_CleanupSwallowsUnlinkFailure ==
  [][ (/\ ctl.kind = "cleanup" /\ ctl.pc # "done" /\ ctl'.pc = "done"
       /\ \E i \in 1..Len(ctl.unlinks) : ~ctl.unlinks[i].ok) =>
        /\ ctl'.ok
        /\ \A i \in 1..Len(ctl.snapshot) :
             ctl.snapshot[i].status # "running" =>
               IndexOfId(doc', ctl.snapshot[i].id) = 0
        /\ ctl'.cleanedProcesses = Len(StoppedProcesses(ctl.snapshot))
        /\ ctl'.cleanedLogFiles =
             Cardinality({i \in 1..Len(ctl.unlinks) : ctl.unlinks[i].ok})
        /\ ctl'.cleanedLogFiles <= ctl'.cleanedProcesses ]_vars

\* the terminate signals the operation has sent with process.kill
KillsSent(log) == {i \in 1..Len(log) : log[i].call = "kill"}

\* stopProcess has terminated the process and is writing stoppedBy user
StopIsRecordingUserStop ==
  /\ ctl.pc \in {"upd_load", "upd_write"}
  /\ Head(ctl.stack) = "stop_updated"
  /\ ctl.updates.stoppedBy = "user"

\* C16: on POSIX the terminate call of stopProcess is one process.kill of
\* the record's pid with SIGTERM, or SIGKILL when forced; when it succeeds
\* stopProcess goes on to write status stopped, stoppedBy user, the write
\* goes through, and the document holds the record so when the stop is over,
\* with one signal sent.
C16_PosixStopSignalsOnceAndRecordsUser ==
  [][ /\ (/\ ctl.pc = "stop_kill" /\ platform = "posix" /\ ctl' # ctl
          /\ ctl'.killOutcome # "invalid") =>
           /\ ctl'.osLog = Append(ctl.osLog,
                 [call |-> "kill", pid |-> ctl.pd.pid,
                  sig |-> IF ctl.force THEN "SIGKILL" ELSE "SIGTERM"])
           /\ Cardinality(KillsSent(ctl'.osLog)) = 1
           /\ ctl'.killOutcome = "ok" =>
                /\ ctl'.pc = "upd_load"
                /\ ctl'.updId = ctl.pd.id
                /\ ctl'.updates.status = "stopped"
                /\ ctl'.updates.stoppedBy = "user"
      /\ (StopIsRecordingUserStop /\ platform = "posix" /\ ctl' # ctl) =>
           /\ ctl.pc = "upd_load" => ctl'.pc = "upd_write"
           /\ ctl.pc = "upd_write" =>
                /\ IndexOfId(doc', ctl.pd.id) > 0
                /\ RecordOf(doc', ctl.pd.id).status = "stopped"
                /\ RecordOf(doc', ctl.pd.id).stoppedBy = "user"
                /\ Cardinality(KillsSent(ctl'.osLog)) = 1
                /\ ctl'.pc = "done" => ctl'.ok ]_vars

\* C17: when the terminate call truly fails (EPERM from process.kill, a
\* taskkill exit code other than 0 and 128, taskkill not launched),
\* stopProcess rejects with that error on the same step and writes nothing:
\* the document is as it was, and the record it read was running with no
\* stop metadata.
C17_KillFailurePropagates ==
  [][ (/\ ctl.pc = "stop_kill"
       /\ ctl'.killOutcome \in {"EPERM", "exitOther", "launchError"}) =>
        /\ ctl'.pc = "done" /\ ~ctl'.ok
        /\ ctl'.error = "KillFailed"
        /\ ctl'.writes = 0
        /\ doc' = doc /\ file' = file
        /\ ctl.pd.status = "running"
        /\ ctl.pd.stoppedBy = None /\ ctl.pd.stoppedAt = None ]_vars

C17_Witness ==
  /\ ctl.pc = "done" /\ ~ctl.ok /\ ctl.error = "KillFailed"
  /\ ctl.killOutcome \in {"EPERM", "exitOther", "launchError"}
  /\ FindIndex(doc, ctl.arg) > 0
  /\ doc[FindIndex(doc, ctl.arg)].status = "running"

\* C18: when the terminate call reports the process already gone (ESRCH
\* from process.kill, exit code 128 from taskkill), stopProcess goes on to
\* write status stopped with stoppedBy system.
C18_AlreadyGoneIsStoppedBySystem ==
  [][ (/\ ctl.pc = "stop_kill"
       /\ ctl'.killOutcome \in {"ESRCH", "exit128"}) =>
        /\ ctl'.pc = "upd_load"
        /\ ctl'.updId = ctl.pd.id
        /\ ctl'.updates.status = "stopped"
        /\ ctl'.updates.stoppedBy = "system" ]_vars

\* C15: listProcesses resolves with the persisted records whose status is
\* "running" (all of them with includeAll), in document order, and neither
\* probes or signals a process nor writes the document: a running record of
\* a dead process is listed as it is.
C15_ListIsAPureRead ==
  [][(ctl.pc = "ls_load" /\ ctl' # ctl /\ file = "ok") =>
       /\ Returns("list")
       /\ ctl'.ok
       /\ \A i \in 1..Len(doc) :
            (ctl.includeAll \/ doc[i].status = "running")
              <=> (\E j \in 1..Len(ctl'.list) : ctl'.list[j] = doc[i])
       /\ \A j \in 1..Len(ctl'.list) :
            \E i \in 1..Len(doc) : ctl'.list[j] = doc[i]
       /\ \A j, k \in 1..Len(ctl'.list) :
            j < k => IndexOfId(doc, ctl'.list[j].id)
                       < IndexOfId(doc, ctl'.list[k].id)
       /\ ctl'.osLog = <<>>
       /\ ctl'.writes = 0
       /\ doc' = doc
       /\ file' = file
       /\ children' = children
       /\ logFiles' = logFiles]_vars

\* list without includeAll has returned a running record of a dead process
C15_Witness ==
  /\ ctl.kind = "list"
  /\ ctl.pc = "done"
  /\ ctl.ok
  /\ ~ctl.includeAll
  /\ \E j \in 1..Len(ctl.list) :
       /\ ctl.list[j].status = "running"
       /\ ctl.list[j].pid # None
       /\ ~PidAlive(ctl.list[j].pid)

\* the records of a document, as a set
Records(d) == {d[i] : i \in 1..Len(d)}

\* C11: for any persisted document, backup to a file followed by restore
\* from that file, with no change in between, leaves the document holding
\* the same set of records, and restore returns the number of records.
C11_BackupThenRestoreRoundTrip ==
  [][(/\ Returns("restore")
      /\ ctl'.ok
      /\ backupFile.kind = "valid"
      /\ backupFile.of = doc
      /\ file # "corrupt") =>
       /\ Records(doc') = Records(doc)
       /\ ctl'.count = Len(doc)
       /\ file' = "ok"]_vars

\* restore has returned after a backup of a document that holds a record
\* of a process that ended, and nothing changed in between
C11_Witness ==
  /\ ctl.kind = "restore"
  /\ ctl.pc = "done"
  /\ ctl.ok
  /\ ctl.count >= 1
  /\ backupFile.kind = "valid"
  /\ backupFile.of = doc
  /\ \E i \in 1..Len(doc) : doc[i].status # "running"

\* C12: restore given a backup whose processes field is missing or not an
\* array fails with the invalid-format error and leaves the existing
\* persisted document unchanged.
C12_InvalidBackupIsRejected ==
  [][(/\ ctl.pc = "rt_read"
      /\ ctl' # ctl
      /\ backupFile.kind \in {"noProcesses", "notArray"}) =>
       /\ Returns("restore")
       /\ ~ctl'.ok
       /\ ctl'.error = "InvalidFormat"
       /\ ctl'.writes = 0
       /\ doc' = doc
       /\ file' = file]_vars

\* restore has rejected an invalid backup while the document holds a record
C12_Witness ==
  /\ ctl.kind = "restore"
  /\ ctl.pc = "done"
  /\ ~ctl.ok
  /\ ctl.error = "InvalidFormat"
  /\ backupFile.kind \in {"noProcesses", "notArray"}
  /\ Len(doc) >= 1
  /\ file = "ok"

\* the positions at which an operation of the caller awaits loadProcesses
LoadPcs ==
  {"ls_load", "bk_load", "gp_load", "upd_load", "st_save_load", "del_load",
   "cl_load"}

\* C13: loadProcesses returns the empty collection when the document is
\* absent and fails with a load error, never with a partial or empty
\* collection, when the document is present but unparsable; in neither case
\* does it modify the document.
C13_LoadOfAbsentIsEmptyOfCorruptFails ==
  [][(ctl.pc \in LoadPcs /\ ctl' # ctl /\ file # "ok") =>
       /\ doc' = doc
       /\ file' = file
       /\ file = "corrupt" =>
            /\ ctl'.pc = "done"
            /\ ~ctl'.ok
            /\ ctl'.error = "LoadFailed"
            /\ ctl'.list = <<>>
            /\ ctl'.buf = <<>>
       /\ (file = "absent" /\ ctl.pc = "ls_load") =>
            /\ ctl'.pc = "done"
            /\ ctl'.ok
            /\ ctl'.list = <<>>
       /\ (file = "absent" /\ ctl.pc = "bk_load") =>
            /\ ctl'.pc = "bk_write"
            /\ ctl'.buf = <<>>]_vars

\* a listProcesses has failed with the load error on an unparsable document
C13_Witness ==
  /\ ctl.kind = "list"
  /\ ctl.pc = "done"
  /\ ~ctl.ok
  /\ ctl.error = "LoadFailed"
  /\ file = "corrupt"

\* the operations of the controller
ControllerOps ==
  {"start", "stop", "get", "list", "logs", "restart", "cleanup"}

\* C14: while the persisted document is unparsable, every controller
\* operation is blocked: no step of it spawns or signals a process or
\* modifies the document, it does not resolve, and when it ends it fails
\* with the load error; only restore makes the document parsable again.
C14_CorruptDocumentBlocksOperations ==
  [][/\ (file = "corrupt" /\ ctl' # ctl /\ ctl'.kind \in ControllerOps) =>
          /\ children' = children
          /\ ctl'.osLog = <<>>
          /\ doc' = doc
          /\ file' = file
          /\ ctl'.pc = "done" => (~ctl'.ok /\ ctl'.error = "LoadFailed")
     /\ (file = "corrupt" /\ file' # "corrupt") => Returns("restore")]_vars

\* a step on which loadProcesses reads the document, for an operation or
\* for an exit listener
LoadStep ==
  \/ ctl.pc \in LoadPcs /\ ctl' # ctl
  \/ \E n \in 1..Len(children) :
       children[n].h = "heard" /\ children'[n].h \in {"write", "rejected"}

\* C19: saveProcesses replaces the full document atomically: a load that
\* runs concurrently with a save observes the complete previous or the
\* complete new document, never an empty, truncated or unparsable one.
C19_SaveIsAtomic ==
  [][(LoadStep /\ SaveInFlight) =>
       /\ file \in {"ok", "absent"}
       /\ LoadProcesses(file, doc).ok]_vars

\* the document holds a record with this id
Holds(d, id) == IndexOfId(d, id) > 0

\* C20: two startProcess calls of two concurrent invocations on the same
\* document are an uncoordinated read-modify-write race in which the last
\* writer wins: the write of a saveProcess leaves the document exactly as
\* the writer computed it from its own earlier read, so a record saved in
\* between is gone. The interleaving after which both calls have returned a
\* running record and the document holds only one of the two is the witness.
C20_LastWriterWins ==
  [][/\ (peer.pc = "save_write" /\ peer'.pc = "close") =>
          /\ doc' = peer.buf
          /\ Holds(doc', peer.new.id)
          /\ \A i \in 1..Len(doc) :
               Holds(doc', doc[i].id) <=> Holds(peer.buf, doc[i].id)
     /\ (ctl.pc = "st_save_write" /\ ctl'.pc = "st_close") =>
          /\ doc' = ctl.buf
          /\ Holds(doc', ctl.new.id)
          /\ \A i \in 1..Len(doc) :
               Holds(doc', doc[i].id) <=> Holds(ctl.buf, doc[i].id)]_vars

\* both calls have returned a running record, no child has exited, and the
\* document holds the record of one call only
C20_Witness ==
  /\ ctl.kind = "start"
  /\ ctl.pc = "done"
  /\ ctl.ok
  /\ ctl.value.status = "running"
  /\ peer.pc = "done"
  /\ peer.value.status = "running"
  /\ \A n \in 1..Len(children) : children[n].alive
  /\ Holds(doc, ctl.value.id) # Holds(doc, peer.value.id)

\* C21: within one instance document mutations are strictly sequential: the
\* write of an exit/error notification's read-modify-write, and the write of
\* an operation's, leaves the document as the modification applied to the
\* document as it is at the write, so no update made since the writer's read
\* is lost: no record saved meanwhile is dropped, no status written
\* meanwhile is reverted.
C21_MutationsAreSequential ==
  [][/\ \A n \in 1..Len(children) :
          (children[n].h = "write" /\ children'[n].h = "done") =>
            /\ Holds(doc, children[n].id)
            /\ doc' = UpdateProcessDoc(doc, children[n].id,
                                       NoteUpdates(children[n].note))
     /\ (ctl.pc = "upd_write" /\ ctl' # ctl) =>
          /\ Holds(doc, ctl.updId)
          /\ doc' = UpdateProcessDoc(doc, ctl.updId, ctl.updates)
     /\ (ctl.pc = "st_save_write" /\ ctl' # ctl) =>
          doc' = SaveProcessDoc(doc, ctl.new)
     /\ (ctl.pc = "del_write" /\ ctl' # ctl) =>
          doc' = DeleteProcessDoc(doc, ctl.delId)]_vars

\* the ids startProcess has given so far
GivenIds == {Ids[k] : k \in 1..nextId}

\* C22: in every state of the document under controller operations no two
\* records share an id, every id in it was given by an earlier startProcess,
\* and the id a startProcess gives was given to no record before, so the id
\* of a record deleted by cleanup or restart is never that of a later one.
C22_IdsUniqueNeverReused ==
  [][/\ \A i, j \in 1..Len(doc') : i # j => doc'[i].id # doc'[j].id
     /\ \A i \in 1..Len(doc') : doc'[i].id \in {Ids[k] : k \in 1..nextId'}
     /\ nextId' # nextId =>
          /\ ctl'.new.id \notin GivenIds
          /\ ~Holds(doc, ctl'.new.id)]_vars

\* the first record was stopped by its exit notification and deleted, and a
\* later startProcess has returned its record
C22_Witness ==
  /\ ctl.kind = "start"
  /\ ctl.pc = "done"
  /\ ctl.ok
  /\ ctl.value.id = Ids[2]
  /\ Holds(doc, Ids[2])
  /\ ~Holds(doc, Ids[1])
  /\ Len(children) = 2
  /\ children[1].h = "done"

\* the log file startProcess assigns to the record with this id
LogFileOf(id) == LogFileNames[CHOOSE k \in 1..Len(Ids) : Ids[k] = id]

\* C23: the logFile assigned at start, <dataDir>/logs/<id>.log, is the same
\* in every later state of the record: no step of an operation or of an
\* exit/error notification changes or clears it.
C23_LogFileIsNeverReassigned ==
  [][/\ \A i \in 1..Len(doc') : doc'[i].logFile = LogFileOf(doc'[i].id)
     /\ \A i \in 1..Len(doc) :
          Holds(doc', doc[i].id) =>
            RecordOf(doc', doc[i].id).logFile = doc[i].logFile]_vars

\* a record that its exit notification has updated still names its log file
C23_Witness ==
  \E i \in 1..Len(doc) :
    /\ doc[i].status = "stopped"
    /\ doc[i].exitCode = "0"
    /\ doc[i].logFile = LogFileOf(doc[i].id)
    /\ \E n \in 1..Len(children) :
         children[n].id = doc[i].id /\ children[n].h = "done"

\* the fields of a record that startProcess sets and nothing changes
ImmutableFields ==
  {"id", "name", "command", "pid", "startTime", "workingDirectory",
   "environment", "logFile", "autostart"}

\* C30: across every step of an operation or notification a record's id,
\* name, command, pid, startTime, workingDirectory, environment, logFile and
\* autostart stay as they were; only status and the metadata fields
\* lastUpdated, exitCode, signal, error, stoppedBy, stoppedAt can change.
C30_OnlyStatusFieldsChange ==
  [][\A i \in 1..Len(doc) :
       Holds(doc', doc[i].id) =>
         \A f \in ImmutableFields :
           RecordOf(doc', doc[i].id)[f] = doc[i][f]]_vars

\* a record that stopProcess has updated, with the fields startProcess set
C30_Witness ==
  \E i \in 1..Len(doc) :
    /\ doc[i].status = "stopped"
    /\ doc[i].stoppedBy = "user"
    /\ doc[i].lastUpdated = Now
    /\ doc[i].pid = Pids[1]
    /\ doc[i].name = "web"
    /\ doc[i].workingDirectory = "/srv"
    /\ doc[i].autostart

\* the lines of a file: the pieces its newlines end, and the unterminated
\* rest when there is one
LinesOf(content) ==
  LET pieces == Split(content)
  IN IF pieces[Len(pieces)] = <<>>
     THEN SubSeq(pieces, 1, Len(pieces) - 1)
     ELSE pieces

Min(a, b) == IF a < b THEN a ELSE b

\* the last n lines of a file, joined by newlines
LastLines(content, n) ==
  LET lines == LinesOf(content)
  IN Join(SubSeq(lines, Len(lines) - Min(n, Len(lines)) + 1, Len(lines)))

\* C25: for any log file content and any tail N >= 1, getLogs with tail N
\* and no follow returns exactly the last min(N, number of lines) lines of
\* the file joined by newlines, with no trailing blank line introduced; with
\* no tail option it returns the full content.
C25_TailReturnsLastLines ==
  [][(ctl.pc = "lg_read" /\ ctl'.pc = "done" /\ ctl'.ok) =>
       IF ctl.tail >= 1
       THEN ctl'.out = LastLines(logText, ctl.tail)
       ELSE ctl'.out = logText]_vars

\* the positions of the records that carry this name
Named(d, name) == {i \in 1..Len(d) : d[i].name = name}

\* the first record in document order that carries this name
FirstNamed(d, name) ==
  d[CHOOSE i \in Named(d, name) : \A j \in Named(d, name) : i <= j]

C26_NoPidIsNeverProbed ==
  [][(/\ ctl.pc = "gp_load"
      /\ ctl' # ctl
      /\ file = "ok"
      /\ FindIndex(doc, ctl.arg) # 0
      /\ doc[FindIndex(doc, ctl.arg)].pid = None) =>
       /\ \A k \in 1..Len(ctl'.osLog) : ctl'.osLog[k].call # "probe"
       /\ ctl'.osLog = ctl.osLog
       /\ ctl'.pc # "upd_load"
       /\ ctl'.writes = ctl.writes
       /\ doc' = doc
       /\ children' = children
       /\ ctl.kind = "get" =>
            /\ ctl'.pc = "done"
            /\ ctl'.ok
            /\ ctl'.value = doc[FindIndex(doc, ctl.arg)]]_vars

\* getProcess has returned a record that says running and has no pid
C26_Witness ==
  /\ ctl.kind = "get"
  /\ ctl.pc = "done"
  /\ ctl.ok
  /\ ctl.value.status = "running"
  /\ ctl.value.pid = None
  /\ ctl.osLog = <<>>
  /\ ctl.writes = 0
  /\ Holds(doc, ctl.value.id)
  /\ RecordOf(doc, ctl.value.id) = ctl.value

\* C27: the liveness check is fail-closed: isProcessRunning resolves to true
\* or false for every outcome of the query underneath and to false whenever
\* that query failed, and the getProcess that made it then goes on to mark
\* the record stopped by the system instead of rejecting or leaving the
\* record as it was.
C27_LivenessCheckIsFailClosed ==
  [][(ctl.pc = "gp_load" /\ ctl'.probe # None) =>
       /\ IsProcessRunning(platform, ctl'.probe) \in BOOLEAN
       /\ ~(ctl'.pc = "done" /\ ~ctl'.ok)
       /\ ctl'.probe \in ProbeFailures =>
            /\ ~IsProcessRunning(platform, ctl'.probe)
            /\ ctl'.pc = "upd_load"
            /\ ctl'.updId = doc[FindIndex(doc, ctl.arg)].id
            /\ ctl'.updates.status = "stopped"
            /\ ctl'.updates.stoppedBy = "system"
       /\ ctl'.pc # "upd_load" =>
            /\ ctl'.probe \in {"ok", "listed"}
            /\ PidAlive(doc[FindIndex(doc, ctl.arg)].pid)]_vars

\* a getProcess whose query failed for a live process is about to mark the
\* record stopped
C27_Witness ==
  /\ ctl.pc = "upd_load"
  /\ ctl.probe \in ProbeFailures
  /\ PidAlive(ctl.pd.pid)
  /\ ctl.updates.status = "stopped"

\* C28: startProcess fails when the OS cannot spawn the process: it then
\* neither returns a record nor leaves a persisted record that says running
\* and has no pid of a spawned process.
C28_SpawnFailureFailsStart ==
  /\ \A i \in 1..Len(doc) : doc[i].status = "running" => doc[i].pid # None
  /\ (ctl.kind = "start" /\ ctl.pc = "done" /\ ctl.ok) =>
       /\ ctl.value.pid # None
       /\ \E n \in 1..Len(children) :
            children[n].id = ctl.value.id /\ children[n].note.kind # "error"

\* the terminate calls in a log of OS calls
Terminations(log) ==
  {i \in 1..Len(log) : log[i].call \in {"kill", "taskkill"}}

\* C29: stopProcess completes as soon as the terminate signal or kill
\* command went through: it goes straight on to mark the record stopped,
\* with no wait for and no check of the death of the process, so the last OS
\* call of a stop that resolved (and of a restart that stopped the old
\* process) is the terminate call, and the process may still be alive.
C29_StopDoesNotWaitForDeath ==
  [][/\ (/\ ctl.pc = "stop_kill"
         /\ ctl' # ctl
         /\ ctl'.killOutcome \in {"ok", "exit0", "exit128"}) =>
          /\ ctl'.pc = "upd_load"
          /\ ctl'.updId = ctl.pd.id
          /\ ctl'.updates.status = "stopped"
          /\ children' = children
          /\ Len(ctl'.osLog) = Len(ctl.osLog) + 1
          /\ Len(ctl'.osLog) \in Terminations(ctl'.osLog)
     /\ (/\ Returns("stop") \/ Returns("restart")
         /\ ctl'.ok
         /\ Terminations(ctl'.osLog) # {}) =>
          Len(ctl'.osLog) \in Terminations(ctl'.osLog)]_vars

\* restartProcess has returned the replacement, spawned and alive, while
\* the process it signalled is still alive too
C29_Witness ==
  /\ ctl.kind = "restart"
  /\ ctl.pc = "done"
  /\ ctl.ok
  /\ Len(children) = 2
  /\ children[1].alive
  /\ children[2].alive
  /\ children[2].pid = ctl.value.pid
  /\ \E i \in Terminations(ctl.osLog) : ctl.osLog[i].pid = children[1].pid

\* C31: the write of startProcess's saveProcess appends the record it built,
\* whose id no record of the document carries, and leaves every record the
\* document holds as it is, also when the name or the command is that of a
\* record already there; it never replaces or resumes an existing record.
C31_StartAppendsNewRecord ==
  [][(ctl.pc = "st_save_write" /\ ctl' # ctl) =>
       /\ ~Holds(doc, ctl.new.id)
       /\ Len(doc') = Len(doc) + 1
       /\ doc'[Len(doc')] = ctl.new
       /\ \A i \in 1..Len(doc) : doc'[i] = doc[i]]_vars

\* C32: a status update or a delete addressed to an id the document does
\* not hold fails with the not-found error and writes nothing; an exit or
\* error notification whose record is gone when its update reads the
\* document is rejected the same way: it writes nothing, so it neither
\* re-creates the record nor alters another one, and it stays rejected.
C32_MissingIdIsNotFound ==
  [][/\ (ctl.pc = "upd_load" /\ ctl' # ctl /\ ~Holds(doc, ctl.updId)) =>
          /\ ctl'.pc = "done"
          /\ ~ctl'.ok
          /\ ctl'.error = "StorageNotFound"
          /\ ctl'.writes = ctl.writes
          /\ doc' = doc
     /\ (ctl.pc = "del_load" /\ ctl' # ctl /\ ~Holds(doc, ctl.delId)) =>
          /\ ctl'.pc = "done"
          /\ ~ctl'.ok
          /\ ctl'.error = "StorageNotFound"
          /\ ctl'.writes = ctl.writes
          /\ doc' = doc
     /\ \A n \in 1..Len(children) :
          /\ (/\ children[n].h = "heard"
              /\ children'[n].h # "heard"
              /\ ~Holds(doc, children[n].id)) =>
               /\ children'[n].h \in {"rejected", "lost"}
               /\ children'[n].hbuf = <<>>
               /\ doc' = doc
          /\ children[n].h = "rejected" =>
               /\ children'[n].h = "rejected"
               /\ children'[n].hbuf = <<>>]_vars

\* the exit notification of a process whose record was deleted has been
\* rejected: the record is not back and the other record is as it was saved
C32_Witness ==
  /\ Len(children) = 2
  /\ children[1].h = "rejected"
  /\ children[1].note.kind = "exit"
  /\ ~Holds(doc, children[1].id)
  /\ Len(doc) = 1
  /\ doc[1].id = children[2].id
  /\ doc[1].status = "running"
  /\ doc[1].pid = children[2].pid

\* the overlay the caller of the startProcess in flight supplied
GivenEnv ==
  IF ctl.options.environment = None THEN NoEnv
  ELSE EnvMap(ctl.options.environment)

\* C33: the environment spawn is given for the child has the keys of the
\* base environment and of the user-supplied overlay, with the overlay's
\* value on every key the overlay has and the base value on the others; the
\* record startProcess saves and returns carries the overlay alone, the
\* empty environment when none was given.
C33_ChildEnvIsBaseOverlaid ==
  [][/\ (ctl.pc = "st_spawn" /\ Len(children') = Len(children) + 1) =>
          LET env == children'[Len(children')].env
          IN /\ DOMAIN env = DOMAIN BaseEnv \cup DOMAIN GivenEnv
             /\ \A k \in DOMAIN GivenEnv : env[k] = GivenEnv[k]
             /\ \A k \in DOMAIN BaseEnv \ DOMAIN GivenEnv : env[k] = BaseEnv[k]
     /\ (ctl.pc = "st_save_write" /\ ctl' # ctl) =>
          /\ Holds(doc', ctl.new.id)
          /\ EnvMap(RecordOf(doc', ctl.new.id).environment) = GivenEnv
          /\ ctl.options.environment = None =>
               RecordOf(doc', ctl.new.id).environment = EmptyEnv
     /\ (Returns("start") /\ ctl'.ok) =>
          EnvMap(ctl'.value.environment) = GivenEnv]_vars

\* a child runs with the overlay's value on the key both environments have
\* and the base value on the other, and its record carries the overlay alone
C33_Witness ==
  \E n \in 1..Len(children) :
    /\ children[n].alive
    /\ children[n].env["K"] = "v"
    /\ children[n].env["N"] = "w"
    /\ children[n].env["HOME"] = "/home"
    /\ Holds(doc, children[n].id)
    /\ DOMAIN EnvMap(RecordOf(doc, children[n].id).environment) = {"K", "N"}

\* the names the stop command has printed a line for, in order
Reported(c) == [i \in 1..Len(c.reports) |-> c.reports[i].name]

\* C34: the stop command given several names calls stopProcess once for
\* every name, in the order given: a stopProcess that fails (not found, not
\* running, kill failure, or any other error) is reported and the loop goes
\* on with the next name, so when the command is over it has a report for
\* each name in order, and the command itself has not failed.
C34_StopCommandTriesEveryName ==
  [][/\ (ctl.kind = "stops" /\ ctl.pc # "done" /\ ctl' # ctl) =>
          /\ ctl'.kind = "stops"
          /\ ctl'.names = ctl.names
          /\ ctl'.ok
          /\ ctl'.at \in {ctl.at, ctl.at + 1}
          /\ ctl'.at = ctl.at + 1 =>
               /\ ctl'.reports # ctl.reports
               /\ ctl'.pc = "gp_load"
               /\ ctl'.arg = ctl.names[ctl'.at]
          /\ ctl'.reports # ctl.reports =>
               /\ Len(ctl'.reports) = Len(ctl.reports) + 1
               /\ ctl'.pc = "done" \/ ctl'.at = ctl.at + 1
          /\ ctl'.pc # "done" => Reported(ctl') = SubSeq(ctl.names, 1, ctl'.at - 1)
          /\ ctl'.pc = "done" => Reported(ctl') = ctl.names
     /\ (ctl.pc = "done" /\ ctl' # ctl /\ ctl'.kind = "stops") =>
          /\ ctl'.at = 1
          /\ ctl'.arg = ctl'.names[1]
          /\ ctl'.reports = <<>>]_vars

\* a stop command given two names is over: the first name failed, the second
\* was stopped, and its record says so
C34_Witness ==
  /\ ctl.kind = "stops"
  /\ ctl.pc = "done"
  /\ ctl.ok
  /\ Len(ctl.names) = 2
  /\ Len(ctl.reports) = 2
  /\ ctl.reports[1].error # None
  /\ ctl.reports[2].error = None
  /\ FindIndex(doc, ctl.names[2]) > 0
  /\ doc[FindIndex(doc, ctl.names[2])].stoppedBy = "user"

\* C35: initialisation never discards data: an init goes on to write its
\* empty document only when its access found no document, and whatever the
\* interleaving of the constructor's init, the init the first operation
\* awaits and the saves that follow, the write of an init removes no record
\* the document holds.
C35_InitNeverDiscardsData ==
  [][/\ (ctorInit = "access" /\ ctorInit' = "write") => file = "absent"
     /\ (ctl.pc = "in_access" /\ ctl'.pc = "in_write") => file = "absent"
     /\ (ctorInit = "write" /\ ctorInit' = "done") =>
          \A i \in 1..Len(doc) : Holds(doc', doc[i].id)
     /\ (ctl.pc = "in_write" /\ ctl' # ctl) =>
          \A i \in 1..Len(doc) : Holds(doc', doc[i].id)]_vars

\* the startProcess in flight has spawned an OS process
StartHasSpawned ==
  /\ ctl.pc \in {"st_save_load", "st_save_write", "st_close"}
  /\ ctl.child # 0
  /\ children[ctl.child].pid # None

\* C36: no untracked process: when a startProcess that has spawned an OS
\* process fails, the process it spawned is not left running without a
\* record in the document.
C36_NoUntrackedProcess ==
  [][(StartHasSpawned /\ ctl'.pc = "done" /\ ~ctl'.ok) =>
       \/ ~children'[ctl.child].alive
       \/ Holds(doc', ctl.new.id)]_vars

\* C37: lookup by id is exact: when nameOrId is the id of a stored record,
\* the lookup of getProcess finds that record, also when a record stored
\* earlier has a name equal to that id.
C37_LookupByIdIsExact ==
  [][(/\ ctl.pc = "gp_load"
      /\ ctl' # ctl
      /\ file = "ok"
      /\ Holds(doc, ctl.arg)) =>
       /\ ~(ctl'.pc = "done" /\ ctl'.error = "NotFound")
       /\ (ctl'.pc = "done" /\ ctl'.ok) => ctl'.value.id = ctl.arg
       /\ ctl'.pc # "done" => ctl'.pd.id = ctl.arg]_vars

\* restartProcess is inside its stopProcess: the start is still to come
RestartIsStopping ==
  /\ ctl.kind = "restart"
  /\ ctl.stack # <<>>
  /\ ctl.stack[Len(ctl.stack)] = "rs_start"

\* the step is one on which that stopProcess fails: its terminate call
\* failed, or its lookup found no record or one that is not running, or its
\* status update found the record gone
RestartStopFails ==
  \/ /\ ctl.pc = "stop_kill"
     /\ ctl'.killOutcome \in {"EPERM", "exitOther", "launchError", "invalid"}
  \/ /\ ctl.pc = "gp_load"
     /\ Head(ctl.stack) = "stop_check"
     /\ file = "ok"
     /\ \/ FindIndex(doc, ctl.arg) = 0
        \/ doc[FindIndex(doc, ctl.arg)].status # "running"
  \/ /\ ctl.pc = "upd_load"
     /\ file = "ok"
     /\ ~Holds(doc, ctl.updId)

\* the ids of the records of a document, in order
IdsOf(d) == [i \in 1..Len(d) |-> d[i].id]

\* C38: when the stop step of restartProcess fails, restartProcess fails on
\* that step with the error of the stop; it has spawned no replacement and
\* created no record, and it has not deleted the original record: no step
\* of the stop hands out an id, writes a record under a new id, removes the
\* original record or adds or removes a log file.
C38_FailedStopFailsRestart ==
  [][(RestartIsStopping /\ ctl' # ctl) =>
       /\ ctl.child = 0
       /\ ctl.new = NoRec
       /\ ctl.deleted = <<>>
       /\ children' = children
       /\ nextId' = nextId
       /\ \A i \in 1..Len(doc') : \E n \in 1..nextId : doc'[i].id = Ids[n]
       /\ Holds(doc, ctl.old.id) => Holds(doc', ctl.old.id)
       /\ logFiles' = logFiles
       /\ RestartStopFails =>
            /\ ctl'.pc = "done"
            /\ ~ctl'.ok
            /\ ctl'.error \in {"KillFailed", "NotFound", "NotRunning",
                               "StorageNotFound"}
       /\ ctl'.pc = "done" => ~ctl'.ok]_vars

\* a restartProcess has failed on the terminate call of its stop: the
\* original record and its process are as they were and nothing was started
C38_Witness ==
  /\ ctl.kind = "restart"
  /\ ctl.pc = "done"
  /\ ~ctl.ok
  /\ ctl.error = "KillFailed"
  /\ nextId = 1
  /\ Len(children) = 1
  /\ children[1].alive
  /\ Len(doc) = 1
  /\ doc[1].id = children[1].id
  /\ doc[1].status = "running"
  /\ logFiles = {doc[1].logFile}

\* an instance whose caller starts and restarts processes
NextRestart ==
  \/ \E in \in StartInputs : CallStart(in)
  \/ \E o \in SpawnOutcomes : StSpawn(o)
  \/ StSaveLoad
  \/ StSaveWrite
  \/ StClose
  \/ \E k \in LookupKeys : CallRestart(k)
  \/ GpLoad
  \/ UpdLoad
  \/ UpdWrite
  \/ \E o \in AllKillOutcomes : StopKill(o)
  \/ RsStart
  \/ DelLoad
  \/ DelWrite
  \/ \E n \in 1..MaxSpawns, e \in Exits : ChildExits(n, e)
  \/ \E n \in 1..MaxSpawns : ListenerLoad(n)
  \/ \E n \in 1..MaxSpawns : ListenerWrite(n)
  \/ InstanceEnds

SpecRestart == InitCli /\ [][NextRestart]_vars

\* restartProcess is inside its startProcess
RestartIsStarting ==
  /\ ctl.kind = "restart"
  /\ ctl.pc \in {"st_spawn", "st_save_load", "st_save_write", "st_close"}

\* the fields of a record restartProcess starts the replacement from
RestartFields ==
  {"command", "name", "workingDirectory", "environment", "autostart"}

\* C39: when the start of the replacement fails, restartProcess fails
\* without deleting the original record: the record is still in the
\* document, with its command and options, and as stopped when the restart
\* had stopped it.
C39_FailedStartKeepsOriginal ==
  [][(RestartIsStarting /\ ctl'.pc = "done" /\ ~ctl'.ok) =>
       /\ ctl.deleted = <<>>
       /\ IdsOf(doc') = IdsOf(doc)
       /\ Holds(doc', ctl.old.id)
       /\ \A f \in RestartFields :
            RecordOf(doc', ctl.old.id)[f] = ctl.old[f]
       /\ ctl.old.status = "running" =>
            RecordOf(doc', ctl.old.id).status = "stopped"]_vars

\* a restartProcess that had stopped the original has failed in its start:
\* the original record is there, stopped by the user, and nothing replaced it
C39_Witness ==
  /\ ctl.kind = "restart"
  /\ ctl.pc = "done"
  /\ ~ctl.ok
  /\ ctl.error = "SpawnFailed"
  /\ Len(doc) = 1
  /\ doc[1].id = Ids[1]
  /\ doc[1].status = "stopped"
  /\ doc[1].stoppedBy = "user"
  /\ doc[1].command = "serve"
  /\ doc[1].name = "web"
  /\ Len(children) = 1

\* C40: a restartProcess never fails with the error of stopProcess for a
\* record that is not running: when the process of the record dies during
\* the restart, also between the lookup of restartProcess and the lookup of
\* its stopProcess, the restart goes on to start the replacement.
C40_RestartNeverNotRunning ==
  ~(/\ ctl.kind = "restart"
    /\ ctl.pc = "done"
    /\ ~ctl.ok
    /\ ctl.error = "NotRunning")

====
